---- MODULE Spec2Model ----
(***************************************************************************)
(* File tracking and integrity verification of sisyphus:                   *)
(*   dbclients/tantalus.py          TantalusApi, the storage clients       *)
(*   datamanagement/check_integrity.py   the integrity sweep (main)        *)
(* The catalog (Tantalus) holds file_resource and file_instance records;   *)
(* the storage backends hold the files.  Records that the client receives  *)
(* from the catalog are dicts: snapshots taken when the response was made. *)
(***************************************************************************)
EXTENDS Integers, Sequences, FiniteSets, TLC

\* ------------------------------------------------------------------ bounds
NumFiles == 2
MaxTime == 2
\* records a list() may have to go through
MaxRecords == 230
\* times a storage record of the catalog is written
MaxVersion == 2
\* get('storage') requests made for one name
MaxQueries == 3
\* characters of a path given to get_file_resource_filename
MaxPathLen == 5

Storages == {"s1", "s2"}
Filenames == 1..NumFiles
\* file sizes: the code only compares two sizes for equality
Sizes == {1, 2}

\* the deployments explored: one file on every storage, every file on one
\* storage
Worlds == {Storages \X {1}, {"s1"} \X Filenames}

VARIABLES
    paths,           \* the <<storage, file>> places that can hold a file
    disk,            \* disk[s][f]: the file f on storage s, NoFile when absent
    clock,           \* modification time the storages hand out
    file_resources,  \* catalog: file_resource records
    file_instances,  \* catalog: file_instance records
    swpc,            \* integrity sweep: position in main()
    swargs,          \* integrity sweep: command line
    swqueue,         \* integrity sweep: file resources still to iterate
    swcur,           \* integrity sweep: file_instance of this iteration
    swflags,         \* integrity sweep: file_corrupt, file_missing
    swagain,         \* integrity sweep: is this run a repeat of the run before
    af,              \* add_file taken step by step: its position and locals
    pg,              \* list(): the pagination parameters and what it yielded
    st,              \* the storage records of the catalog and the client's caches
    sw2,             \* a second integrity sweep, run beside the first
    last             \* the call made last and what it returned or raised

vars == <<paths, disk, clock, file_resources, file_instances,
          swpc, swargs, swqueue, swcur, swflags, swagain, af, pg, st, sw2,
          last>>

catalog == <<file_resources, file_instances>>
sweepvars == <<swpc, swargs, swqueue, swcur, swflags>>

\* ------------------------------------------------------ storage backends
NoFile == [size |-> 0, created |-> 0]

\* storage_client.exists(filename)
Exists(s, f) == disk[s][f] # NoFile

\* storage_client.get_size(filename); raises when the file is absent
GetSize(s, f) == disk[s][f].size

\* storage_client.get_created_time(filename); raises when the file is absent
GetCreatedTime(s, f) == disk[s][f].created

\* --------------------------------------------------- catalog serializers
NoResource == [id |-> 0, filename |-> 0, size |-> 0, created |-> 0,
               file_instances |-> {}]
NoResourceRef == [id |-> 0, filename |-> 0, size |-> 0, created |-> 0]
NoInstance == [id |-> 0, storage |-> "", is_deleted |-> FALSE,
               file_resource |-> NoResourceRef]

\* a file_resource as the catalog returns it: file_resource['file_instances']
\* is the list of its instances at the time of the response
FileResourceDict(frs, fis, rid) ==
    LET r == CHOOSE x \in frs : x.id = rid
    IN [id |-> r.id, filename |-> r.filename, size |-> r.size,
        created |-> r.created,
        file_instances |->
            {[id |-> i.id, storage |-> i.storage, is_deleted |-> i.is_deleted] :
                 i \in {j \in fis : j.file_resource = rid}}]

\* a file_instance as the catalog returns it: file_instance['file_resource']
\* and file_instance['storage']['name'] are nested
FileInstanceDict(frs, fis, iid) ==
    LET i == CHOOSE x \in fis : x.id = iid
        r == CHOOSE x \in frs : x.id = i.file_resource
    IN [id |-> i.id, storage |-> i.storage, is_deleted |-> i.is_deleted,
        file_resource |-> [id |-> r.id, filename |-> r.filename,
                           size |-> r.size, created |-> r.created]]

\* -------------------------------------------------------- catalog client
\* update('file_instance', id=..., is_deleted=...)
UpdateInstance(fis, iid, deleted) ==
    {IF i.id = iid THEN [i EXCEPT !.is_deleted = deleted] ELSE i : i \in fis}

\* update('file_resource', id=..., created=..., size=...)
UpdateResource(frs, rid, created, size) ==
    {IF r.id = rid THEN [r EXCEPT !.created = created, !.size = size] ELSE r :
         r \in frs}

\* get_or_create that creates without looking
GetOrCreateResource_AlwaysCreates(frs, f, created, size) ==
    LET new == [id |-> Cardinality(frs) + 1, filename |-> f,
                size |-> size, created |-> created]
    IN [ret |-> "ok", frs |-> frs \cup {new}, id |-> new.id, created |-> TRUE]

\* get_or_create('file_resource', filename=, created=, size=)
GetOrCreateResource(frs, f, created, size) ==
    LET found == {r \in frs : r.filename = f}
    IN IF found = {}
       THEN LET new == [id |-> Cardinality(frs) + 1, filename |-> f,
                        size |-> size, created |-> created]
            IN [ret |-> "ok", frs |-> frs \cup {new}, id |-> new.id,
                created |-> TRUE]
       ELSE IF Cardinality(found) > 1
       THEN [ret |-> "Exception", frs |-> frs, id |-> 0, created |-> FALSE]
       ELSE LET r == CHOOSE x \in found : TRUE
            IN IF r.size = size /\ r.created = created
               THEN [ret |-> "ok", frs |-> frs, id |-> r.id,
                     created |-> FALSE]
               ELSE [ret |-> "FieldMismatchError", frs |-> frs, id |-> 0,
                     created |-> FALSE]

\* get_or_create('file_instance', file_resource=, storage=)
GetOrCreateInstance(fis, rid, s) ==
    LET found == {i \in fis : i.file_resource = rid /\ i.storage = s}
    IN IF found = {}
       THEN LET new == [id |-> Cardinality(fis) + 1, file_resource |-> rid,
                        storage |-> s, is_deleted |-> FALSE]
            IN [ret |-> "ok", fis |-> fis \cup {new}, id |-> new.id,
                created |-> TRUE]
       ELSE IF Cardinality(found) > 1
       THEN [ret |-> "Exception", fis |-> fis, id |-> 0, created |-> FALSE]
       ELSE [ret |-> "ok", fis |-> fis, id |-> (CHOOSE x \in found : TRUE).id,
             created |-> FALSE]

\* ------------------------------------------------------------ TantalusApi
\* add_instance that leaves a deleted instance deleted
AddInstance_NoRevive(fis, rid, s) ==
    LET goc == GetOrCreateInstance(fis, rid, s)
    IN IF goc.ret # "ok"
       THEN [ret |-> goc.ret, fis |-> fis, id |-> 0, did |-> ""]
       ELSE [ret |-> "ok", fis |-> goc.fis, id |-> goc.id,
             did |-> IF goc.created THEN "created" ELSE "found"]

\* add_instance that creates where it should get or create
AddInstance_AlwaysCreate(fis, rid, s) ==
    LET new == [id |-> Cardinality(fis) + 1, file_resource |-> rid,
                storage |-> s, is_deleted |-> FALSE]
    IN [ret |-> "ok", fis |-> fis \cup {new}, id |-> new.id,
        did |-> "created"]

\* add_instance that replaces a deleted instance by a new record
AddInstance_ReplaceDeleted(fis, rid, s) ==
    LET goc == GetOrCreateInstance(fis, rid, s)
    IN IF goc.ret # "ok"
       THEN [ret |-> goc.ret, fis |-> fis, id |-> 0, did |-> ""]
       ELSE LET i == CHOOSE x \in goc.fis : x.id = goc.id
            IN IF i.is_deleted
               THEN AddInstance_AlwaysCreate(fis, rid, s)
               ELSE [ret |-> "ok", fis |-> goc.fis, id |-> goc.id,
                     did |-> IF goc.created THEN "created" ELSE "found"]

\* add_instance(file_resource, storage); did says which requests it made:
\* "created" (get_or_create created), "revived" (the update of line 489),
\* "found" (neither)
AddInstance(fis, rid, s) ==
    LET goc == GetOrCreateInstance(fis, rid, s)
    IN IF goc.ret # "ok"
       THEN [ret |-> goc.ret, fis |-> fis, id |-> 0, did |-> ""]
       ELSE LET i == CHOOSE x \in goc.fis : x.id = goc.id
            IN IF i.is_deleted
               THEN [ret |-> "ok",
                     fis |-> UpdateInstance(goc.fis, goc.id, FALSE),
                     id |-> goc.id, did |-> "revived"]
               ELSE [ret |-> "ok", fis |-> goc.fis, id |-> goc.id,
                     did |-> IF goc.created THEN "created" ELSE "found"]

\* the loop of add_file that sets every instance of the resource deleted
DeleteAllInstances(fis, res) ==
    {IF i.id \in {j.id : j \in res.file_instances}
        THEN [i EXCEPT !.is_deleted = TRUE] ELSE i : i \in fis}

AddFileFails(ret, frs, fis) ==
    [ret |-> ret, frs |-> frs, fis |-> fis,
     res |-> NoResource, inst |-> NoInstance, did |-> <<"", "">>]

\* add_file that updates on a mismatch whatever update is
AddFile_AlwaysUpdates(frs, fis, s, f, update) ==
    IF ~Exists(s, f) THEN AddFileFails("StorageError", frs, fis)
    ELSE
    LET goc == GetOrCreateResource(frs, f, GetCreatedTime(s, f), GetSize(s, f))
    IN IF goc.ret = "Exception" THEN AddFileFails("Exception", frs, fis)
       ELSE
       LET mismatch == goc.ret = "FieldMismatchError"
           old == FileResourceDict(frs, fis,
                      (CHOOSE r \in frs : r.filename = f).id)
           rid == IF mismatch THEN old.id ELSE goc.id
           fis1 == IF mismatch THEN DeleteAllInstances(fis, old) ELSE fis
           frs1 == IF mismatch
                   THEN UpdateResource(frs, rid, GetCreatedTime(s, f),
                                       GetSize(s, f))
                   ELSE goc.frs
           res == FileResourceDict(frs1, fis1, rid)
           ai == AddInstance(fis1, rid, s)
       IN IF ai.ret # "ok" THEN AddFileFails("Exception", frs1, fis1)
          ELSE [ret |-> "ok", frs |-> frs1, fis |-> ai.fis, res |-> res,
                inst |-> FileInstanceDict(frs1, ai.fis, ai.id),
                did |-> <<IF mismatch THEN "updated"
                          ELSE IF goc.created THEN "created" ELSE "matched",
                          ai.did>>]

\* add_file that registers what the storage reports of a file that is absent
AddFile_RegistersAbsent(frs, fis, s, f, update) ==
    LET goc == GetOrCreateResource(frs, f, GetCreatedTime(s, f), GetSize(s, f))
    IN IF goc.ret = "Exception" THEN AddFileFails("Exception", frs, fis)
       ELSE IF goc.ret = "FieldMismatchError" /\ ~update
       THEN AddFileFails("FieldMismatchError", frs, fis)
       ELSE
       LET mismatch == goc.ret = "FieldMismatchError"
           \* get('file_resource', filename=filename)
           old == FileResourceDict(frs, fis,
                      (CHOOSE r \in frs : r.filename = f).id)
           rid == IF mismatch THEN old.id ELSE goc.id
           fis1 == IF mismatch THEN DeleteAllInstances(fis, old) ELSE fis
           frs1 == IF mismatch
                   THEN UpdateResource(frs, rid, GetCreatedTime(s, f),
                                       GetSize(s, f))
                   ELSE goc.frs
           \* the dict get_or_create or update returned, before add_instance
           res == FileResourceDict(frs1, fis1, rid)
           ai == AddInstance(fis1, rid, s)
       IN IF ai.ret # "ok" THEN AddFileFails("Exception", frs1, fis1)
          ELSE [ret |-> "ok", frs |-> frs1, fis |-> ai.fis, res |-> res,
                inst |-> FileInstanceDict(frs1, ai.fis, ai.id),
                did |-> <<IF mismatch THEN "updated"
                          ELSE IF goc.created THEN "created" ELSE "matched",
                          ai.did>>]

\* add_file(storage_name, filepath, update) for the path of file f under the
\* prefix of storage s; did says what became of the file resource ("created",
\* "matched", "updated") and what add_instance did
AddFile(frs, fis, s, f, update) ==
    IF ~Exists(s, f) THEN AddFileFails("StorageError", frs, fis)
    ELSE
    LET goc == GetOrCreateResource(frs, f, GetCreatedTime(s, f), GetSize(s, f))
    IN IF goc.ret = "Exception" THEN AddFileFails("Exception", frs, fis)
       ELSE IF goc.ret = "FieldMismatchError" /\ ~update
       THEN AddFileFails("FieldMismatchError", frs, fis)
       ELSE
       LET mismatch == goc.ret = "FieldMismatchError"
           \* get('file_resource', filename=filename)
           old == FileResourceDict(frs, fis,
                      (CHOOSE r \in frs : r.filename = f).id)
           rid == IF mismatch THEN old.id ELSE goc.id
           fis1 == IF mismatch THEN DeleteAllInstances(fis, old) ELSE fis
           frs1 == IF mismatch
                   THEN UpdateResource(frs, rid, GetCreatedTime(s, f),
                                       GetSize(s, f))
                   ELSE goc.frs
           \* the dict get_or_create or update returned, before add_instance
           res == FileResourceDict(frs1, fis1, rid)
           ai == AddInstance(fis1, rid, s)
       IN IF ai.ret # "ok" THEN AddFileFails("Exception", frs1, fis1)
          ELSE [ret |-> "ok", frs |-> frs1, fis |-> ai.fis, res |-> res,
                inst |-> FileInstanceDict(frs1, ai.fis, ai.id),
                did |-> <<IF mismatch THEN "updated"
                          ELSE IF goc.created THEN "created" ELSE "matched",
                          ai.did>>]

\* update_file that forgets the size
UpdateFile_CreatedOnly(frs, inst) ==
    LET s == inst.storage
        f == inst.file_resource.filename
    IN IF ~Exists(s, f)
       THEN [ret |-> "StorageError", frs |-> frs, inst |-> inst]
       ELSE LET frs1 == UpdateResource(frs, inst.file_resource.id,
                                       GetCreatedTime(s, f),
                                       inst.file_resource.size)
                r == CHOOSE x \in frs1 : x.id = inst.file_resource.id
            IN [ret |-> "ok", frs |-> frs1,
                inst |-> [inst EXCEPT !.file_resource =
                             [id |-> r.id, filename |-> r.filename,
                              size |-> r.size, created |-> r.created]]]

\* update_file that corrects one field a call: created, and size when created
\* is right already
UpdateFile_OneFieldPerCall(frs, inst) ==
    LET s == inst.storage
        f == inst.file_resource.filename
    IN IF ~Exists(s, f)
       THEN [ret |-> "StorageError", frs |-> frs, inst |-> inst]
       ELSE LET old == CHOOSE x \in frs : x.id = inst.file_resource.id
                frs1 == UpdateResource(frs, old.id, GetCreatedTime(s, f),
                            IF old.created # GetCreatedTime(s, f)
                            THEN old.size ELSE GetSize(s, f))
                r == CHOOSE x \in frs1 : x.id = old.id
            IN [ret |-> "ok", frs |-> frs1,
                inst |-> [inst EXCEPT !.file_resource =
                             [id |-> r.id, filename |-> r.filename,
                              size |-> r.size, created |-> r.created]]]

\* update_file whose update is not limited to the resource's id
UpdateFile_EveryResource(frs, inst) ==
    LET s == inst.storage
        f == inst.file_resource.filename
    IN IF ~Exists(s, f)
       THEN [ret |-> "StorageError", frs |-> frs, inst |-> inst]
       ELSE LET frs1 == {[r EXCEPT !.created = GetCreatedTime(s, f),
                                   !.size = GetSize(s, f)] : r \in frs}
                r == CHOOSE x \in frs1 : x.id = inst.file_resource.id
            IN [ret |-> "ok", frs |-> frs1,
                inst |-> [inst EXCEPT !.file_resource =
                             [id |-> r.id, filename |-> r.filename,
                              size |-> r.size, created |-> r.created]]]

\* update_file that returns the instance as it was given
UpdateFile_ReturnsGiven(frs, inst) ==
    LET s == inst.storage
        f == inst.file_resource.filename
    IN IF ~Exists(s, f)
       THEN [ret |-> "StorageError", frs |-> frs, inst |-> inst]
       ELSE [ret |-> "ok",
             frs |-> UpdateResource(frs, inst.file_resource.id,
                                    GetCreatedTime(s, f), GetSize(s, f)),
             inst |-> inst]

\* update_file(file_instance)
UpdateFile(frs, inst) ==
    LET s == inst.storage
        f == inst.file_resource.filename
    IN IF ~Exists(s, f)
       THEN [ret |-> "StorageError", frs |-> frs, inst |-> inst]
       ELSE LET frs1 == UpdateResource(frs, inst.file_resource.id,
                                       GetCreatedTime(s, f), GetSize(s, f))
                r == CHOOSE x \in frs1 : x.id = inst.file_resource.id
            IN [ret |-> "ok", frs |-> frs1,
                inst |-> [inst EXCEPT !.file_resource =
                             [id |-> r.id, filename |-> r.filename,
                              size |-> r.size, created |-> r.created]]]

\* check_file(file_instance): what it raises, "ok" when it returns
CheckFile(inst) ==
    IF ~Exists(inst.storage, inst.file_resource.filename)
    THEN "DataCorruptionError"
    ELSE IF GetSize(inst.storage, inst.file_resource.filename)
                # inst.file_resource.size
    THEN "DataCorruptionError"
    ELSE "ok"

\* get_file_instance that attaches the resource to the entry of the list
GetFileInstance_NoCopy(res, storage_name) ==
    LET found == {i \in res.file_instances : i.storage = storage_name}
    IN IF found = {}
       THEN [ret |-> "NotFoundError", inst |-> NoInstance, res |-> res]
       ELSE LET i == CHOOSE x \in found : \A y \in found : x.id <= y.id
                ref == [id |-> res.id, filename |-> res.filename,
                        size |-> res.size, created |-> res.created]
                inst == [id |-> i.id, storage |-> i.storage,
                         is_deleted |-> i.is_deleted, file_resource |-> ref]
            IN [ret |-> "ok", inst |-> inst,
                res |-> [res EXCEPT !.file_instances =
                                        (res.file_instances \ {i})
                                            \cup {inst}]]

\* get_file_instance(file_resource, storage_name): the first instance of the
\* list on that storage, the list being in the catalog's order (by id); what
\* it returns or raises, and the file_resource dict as the call leaves it
GetFileInstance(res, storage_name) ==
    LET found == {i \in res.file_instances : i.storage = storage_name}
    IN IF found = {}
       THEN [ret |-> "NotFoundError", inst |-> NoInstance, res |-> res]
       ELSE LET i == CHOOSE x \in found : \A y \in found : x.id <= y.id
            IN [ret |-> "ok",
                inst |-> [id |-> i.id, storage |-> i.storage,
                          is_deleted |-> i.is_deleted,
                          file_resource |-> [id |-> res.id,
                              filename |-> res.filename, size |-> res.size,
                              created |-> res.created]],
                res |-> res]

\* ids of a set in increasing order: the order in which list() yields
RECURSIVE SortedIds(_)
SortedIds(S) ==
    IF S = {} THEN << >>
    ELSE LET m == CHOOSE x \in S : \A y \in S : x <= y
         IN <<m>> \o SortedIds(S \ {m})

\* list('file_resource', fileinstance__storage__name=storage_name)
ListOnStorage(frs, fis, s) ==
    SortedIds({r.id : r \in {x \in frs :
                  \E i \in fis : i.file_resource = x.id /\ i.storage = s}})

Call(op, ret, s, f, res, inst, did) ==
    [op |-> op, ret |-> ret, storage |-> s, filename |-> f,
     res |-> res, inst |-> inst, did |-> did]

Nothing == <<"", "">>

NoArgs == [storage_name |-> "", dry_run |-> FALSE,
           fix_corrupt |-> FALSE, remove_missing |-> FALSE]
\* the storages of the deployment
Known == {p[1] : p \in paths}
NoFlags == [file_corrupt |-> FALSE, file_missing |-> FALSE]
SweepIdle == swpc \in {"idle", "done", "aborted"}

\* no second sweep
NoSweep2 == [pc |-> "idle"]

\* no storage record; version counts the times a record was written
NoStorage == [storage_type |-> "", version |-> 0]

\* no storage client
NoClient == [class |-> "", obj |-> 0, version |-> 0]

\* no storage provisioned, nothing cached, nothing called; queries counts
\* the get('storage') requests made for a name, objects the clients constructed
NoStorages ==
    [catalog |-> [n \in Storages |-> NoStorage],
     cached_storages |-> [n \in Storages |-> NoStorage],
     cached_storage_clients |-> [n \in Storages |-> NoClient],
     queries |-> [n \in Storages |-> 0],
     objects |-> 0,
     call |-> [op |-> "", name |-> "", ret |-> "", hit |-> FALSE,
               value |-> NoStorage]]

\* the sweep is a process of its own: once it has ended, the next call is made
\* with no sweep around
SweepExit ==
    /\ swpc' = "idle"
    /\ swargs' = NoArgs
    /\ swqueue' = << >>
    /\ swcur' = NoInstance
    /\ swflags' = NoFlags
    /\ swagain' = FALSE
    /\ sw2' = NoSweep2

\* no add_file under way
NoAddFile == [pc |-> "idle"]

\* no list() under way
NoList == [pc |-> "idle"]

Init ==
    /\ paths \in Worlds
    /\ disk = [s \in Storages |-> [f \in Filenames |-> NoFile]]
    /\ clock = 0
    /\ file_resources = {}
    /\ file_instances = {}
    /\ swpc = "idle"
    /\ swargs = NoArgs
    /\ swqueue = << >>
    /\ swcur = NoInstance
    /\ swflags = NoFlags
    /\ swagain = FALSE
    /\ af = NoAddFile
    /\ pg = NoList
    /\ st = NoStorages
    /\ sw2 = NoSweep2
    /\ last = Call("init", "ok", "", 0, NoResource, NoInstance, Nothing)

\* ------------------------------------------------ the storages' own life
\* a file is written (or rewritten) on a storage
WriteFile(s, f, size) ==
    /\ SweepIdle
    /\ <<s, f>> \in paths
    /\ clock < MaxTime
    /\ clock' = clock + 1
    /\ disk' = [disk EXCEPT ![s][f] = [size |-> size, created |-> clock + 1]]
    /\ last' = Call("write", "ok", "", 0, NoResource, NoInstance, Nothing)
    /\ SweepExit
    /\ af' = NoAddFile /\ UNCHANGED pg
    /\ UNCHANGED <<paths, catalog>>
    /\ UNCHANGED st

\* a file is copied from one storage to another, keeping its timestamp
CopyFile(s, t, f) ==
    /\ SweepIdle
    /\ s # t
    /\ <<t, f>> \in paths
    /\ Exists(s, f)
    /\ disk[t][f] # disk[s][f]
    /\ disk' = [disk EXCEPT ![t][f] = disk[s][f]]
    /\ last' = Call("copy", "ok", "", 0, NoResource, NoInstance, Nothing)
    /\ SweepExit
    /\ af' = NoAddFile /\ UNCHANGED pg
    /\ UNCHANGED <<paths, clock, catalog>>
    /\ UNCHANGED st

\* a file disappears from a storage
RemoveFile(s, f) ==
    /\ SweepIdle
    /\ Exists(s, f)
    /\ disk' = [disk EXCEPT ![s][f] = NoFile]
    /\ last' = Call("remove", "ok", "", 0, NoResource, NoInstance, Nothing)
    /\ SweepExit
    /\ af' = NoAddFile /\ UNCHANGED pg
    /\ UNCHANGED <<paths, clock, catalog>>
    /\ UNCHANGED st

\* ------------------------------------------------- calls of the registrar
AddFileOp(s, f, update) ==
    /\ SweepIdle
    /\ LET r == AddFile(file_resources, file_instances, s, f, update)
       IN /\ file_resources' = r.frs
          /\ file_instances' = r.fis
          /\ last' = Call(IF update THEN "add_file_update" ELSE "add_file",
                          r.ret, s, f, r.res, r.inst, r.did)
    /\ SweepExit
    /\ UNCHANGED <<af, pg>>
    /\ UNCHANGED <<paths, disk, clock>>
    /\ UNCHANGED st

AddInstanceOp(rid, s) ==
    /\ SweepIdle
    /\ rid \in {r.id : r \in file_resources}
    /\ LET r == AddInstance(file_instances, rid, s)
       IN /\ file_instances' = r.fis
          /\ last' = Call("add_instance", r.ret, s,
                          (CHOOSE x \in file_resources : x.id = rid).filename,
                          NoResource,
                          IF r.ret = "ok"
                          THEN FileInstanceDict(file_resources, r.fis, r.id)
                          ELSE NoInstance, <<"", r.did>>)
    /\ SweepExit
    /\ UNCHANGED <<af, pg>>
    /\ UNCHANGED <<paths, disk, clock, file_resources>>
    /\ UNCHANGED st

UpdateFileOp(iid) ==
    /\ SweepIdle
    /\ iid \in {i.id : i \in file_instances}
    /\ LET inst == FileInstanceDict(file_resources, file_instances, iid)
           r == UpdateFile(file_resources, inst)
       IN /\ file_resources' = r.frs
          /\ last' = Call("update_file", r.ret, inst.storage,
                          inst.file_resource.filename, NoResource, r.inst, Nothing)
    /\ SweepExit
    /\ UNCHANGED <<af, pg>>
    /\ UNCHANGED <<paths, disk, clock, file_instances>>
    /\ UNCHANGED st

\* ------------------------------------- check_integrity.py: main(), by step
\* lines 59-68: the selection of an all_file_instances run
SweepStart(s, dry_run, fix_corrupt, remove_missing) ==
    /\ SweepIdle
    /\ swargs' = [storage_name |-> s, dry_run |-> dry_run,
                  fix_corrupt |-> fix_corrupt,
                  remove_missing |-> remove_missing]
    /\ swqueue' = ListOnStorage(file_resources, file_instances, s)
    /\ swpc' = "loop"
    /\ swcur' = NoInstance
    /\ swflags' = NoFlags
    /\ last' = Call("sweep_start", "ok", s, 0, NoResource, NoInstance, Nothing)
    /\ swagain' = FALSE
    /\ UNCHANGED <<paths, disk, clock, catalog, af, pg>>
    /\ UNCHANGED <<st, sw2>>

\* the deleted instance checked like any other
Skips_Never(inst) == FALSE

\* lines 80-83: an instance marked as deleted is passed over
Skips(inst) == inst.is_deleted

\* lines 70-83: get the file instance of the next file resource
SweepFetch ==
    /\ swpc = "loop"
    /\ swqueue # << >>
    /\ LET rid == Head(swqueue)
           found == {i \in file_instances :
                        i.file_resource = rid
                        /\ i.storage = swargs.storage_name}
       IN IF found = {}
          THEN \* NotFoundError: logged, continue
               /\ swqueue' = Tail(swqueue)
               /\ swpc' = "loop"
               /\ swcur' = NoInstance
               /\ last' = Call("sweep_fetch", "NotFoundError",
                               swargs.storage_name, 0, NoResource, NoInstance, Nothing)
          ELSE IF Cardinality(found) > 1
          THEN \* get() raises on more than one match: not caught
               /\ swqueue' = swqueue
               /\ swpc' = "aborted"
               /\ swcur' = NoInstance
               /\ last' = Call("sweep_fetch", "Exception",
                               swargs.storage_name, 0, NoResource, NoInstance, Nothing)
          ELSE LET inst == FileInstanceDict(file_resources, file_instances,
                               (CHOOSE x \in found : TRUE).id)
               IN IF Skips(inst)
                  THEN /\ swqueue' = Tail(swqueue)
                       /\ swpc' = "loop"
                       /\ swcur' = NoInstance
                       /\ last' = Call("sweep_fetch", "deleted",
                                       swargs.storage_name,
                                       inst.file_resource.filename,
                                       NoResource, inst, Nothing)
                  ELSE /\ swqueue' = swqueue
                       /\ swpc' = "check"
                       /\ swcur' = inst
                       /\ last' = Call("sweep_fetch", "ok",
                                       swargs.storage_name,
                                       inst.file_resource.filename,
                                       NoResource, inst, Nothing)
    /\ swflags' = NoFlags
    /\ UNCHANGED <<paths, disk, clock, catalog, swargs, swagain, af, pg>>
    /\ UNCHANGED <<st, sw2>>

\* lines 85-94: check_file and the two except clauses.  main catches
\* DataMissingError, a name tantalus.py neither defines nor raises: check_file
\* raises DataCorruptionError for an absent file too, so file_missing stays
\* False
SweepCheck ==
    /\ swpc = "check"
    /\ LET raised == CheckFile(swcur)
       IN /\ swflags' = [file_corrupt |-> raised = "DataCorruptionError",
                         file_missing |-> raised = "DataMissingError"]
          /\ last' = Call("sweep_check", raised, swargs.storage_name,
                          swcur.file_resource.filename, NoResource, swcur, Nothing)
    /\ swpc' = "repair"
    /\ UNCHANGED <<paths, disk, clock, catalog, swargs, swqueue, swcur,
                   swagain, af, pg>>
    /\ UNCHANGED <<st, sw2>>

\* update_file called in a dry run too
DoFix_InDryRun(flags, args) ==
    flags.file_corrupt /\ args.fix_corrupt

\* update_file called without --fix_corrupt
DoFix_Unasked(flags, args) ==
    flags.file_corrupt /\ ~args.dry_run

\* lines 96-101: is update_file called
DoFix(flags, args) ==
    flags.file_corrupt /\ args.fix_corrupt /\ ~args.dry_run

\* lines 103-112: is the instance set deleted
DoRemove(flags, args) ==
    flags.file_missing /\ args.remove_missing /\ ~args.dry_run

\* lines 96-112: the two repairs
SweepRepair ==
    /\ swpc = "repair"
    /\ LET fix == DoFix(swflags, swargs)
           remove == DoRemove(swflags, swargs)
           uf == UpdateFile(file_resources, swcur)
       IN IF fix /\ uf.ret # "ok"
          THEN \* update_file raises: nothing catches it
               /\ swpc' = "aborted"
               /\ swqueue' = swqueue
               /\ UNCHANGED catalog
               /\ last' = Call("sweep_repair", uf.ret, swargs.storage_name,
                               swcur.file_resource.filename, NoResource, swcur, Nothing)
          ELSE /\ swpc' = "loop"
               /\ swqueue' = Tail(swqueue)
               /\ file_resources' = IF fix THEN uf.frs ELSE file_resources
               /\ file_instances' =
                      IF remove
                      THEN UpdateInstance(file_instances, swcur.id, TRUE)
                      ELSE file_instances
               /\ last' = Call("sweep_repair", "ok", swargs.storage_name,
                               swcur.file_resource.filename, NoResource, swcur,
                               <<IF fix THEN "fixed" ELSE "",
                                 IF remove THEN "removed" ELSE "">>)
    /\ swcur' = NoInstance
    /\ swflags' = NoFlags
    /\ UNCHANGED <<paths, disk, clock, swargs, swagain, af, pg>>
    /\ UNCHANGED <<st, sw2>>

\* the for loop is exhausted
SweepFinish ==
    /\ swpc = "loop"
    /\ swqueue = << >>
    /\ swpc' = "done"
    /\ last' = Call("sweep_finish", "ok", swargs.storage_name, 0,
                    NoResource, NoInstance, Nothing)
    /\ UNCHANGED <<paths, disk, clock, catalog, swargs, swqueue, swcur, swflags,
                   swagain, af, pg>>
    /\ UNCHANGED <<st, sw2>>

Next ==
    \/ \E s \in Storages, f \in Filenames, size \in Sizes : WriteFile(s, f, size)
    \/ \E s \in Storages, t \in Storages, f \in Filenames : CopyFile(s, t, f)
    \/ \E s \in Storages, f \in Filenames : RemoveFile(s, f)
    \/ \E s \in Known, f \in Filenames, update \in BOOLEAN :
           AddFileOp(s, f, update)
    \/ \E rid \in 1..NumFiles, s \in Known : AddInstanceOp(rid, s)
    \/ \E iid \in 1..(NumFiles * Cardinality(Storages)) : UpdateFileOp(iid)
    \/ \E s \in Known, dry_run \in BOOLEAN, fix_corrupt \in BOOLEAN,
          remove_missing \in BOOLEAN :
           SweepStart(s, dry_run, fix_corrupt, remove_missing)
    \/ SweepFetch
    \/ SweepCheck
    \/ SweepRepair
    \/ SweepFinish

Spec == Init /\ [][Next]_vars

\* ------------------------------------------------------------------ list()
\* the page size of get_list_pagination_initial_params
PageLimit == 100

\* the cursor that starts past the first record
InitialParams_OffsetOne == [limit |-> PageLimit, offset |-> 1]

\* get_list_pagination_initial_params(params)
InitialParams == [limit |-> PageLimit, offset |-> 0]

\* the cursor that advances one short of a page
NextPageParams_OffByOne(params) ==
    [params EXCEPT !.offset = params.offset + params.limit - 1]

\* get_list_pagination_next_page_params(params)
NextPageParams(params) ==
    [params EXCEPT !.offset = params.offset + params.limit]

\* the page the store returns: of its n matching records, kept in one order
\* and numbered 1..n, those from offset+1 on, at most limit of them
Page(n, params) ==
    LET len == IF n - params.offset < 0 THEN 0
               ELSE IF n - params.offset < params.limit
               THEN n - params.offset ELSE params.limit
    IN [i \in 1..len |-> params.offset + i]

\* list(kind, filters) is called on a store with n matching records
ListStart(n) ==
    /\ pg.pc = "idle"
    /\ pg' = [pc |-> "fetch", n |-> n, params |-> InitialParams,
              out |-> << >>, fetches |-> 0]
    /\ UNCHANGED <<paths, disk, clock, catalog, sweepvars, swagain, af, last>>
    /\ UNCHANGED <<st, sw2>>

\* one round of list(): fetch a page, yield its records, stop after a page
\* shorter than the page size, else move the cursor
ListFetch ==
    /\ pg.pc = "fetch"
    /\ LET page == Page(pg.n, pg.params)
       IN pg' = [pg EXCEPT
                    !.out = pg.out \o page,
                    !.fetches = pg.fetches + 1,
                    !.pc = IF Len(page) < pg.params.limit
                           THEN "done" ELSE "fetch",
                    !.params = IF Len(page) < pg.params.limit
                               THEN pg.params ELSE NextPageParams(pg.params)]
    /\ UNCHANGED <<paths, disk, clock, catalog, sweepvars, swagain, af, last>>
    /\ UNCHANGED <<st, sw2>>

NextList ==
    \/ \E n \in 0..MaxRecords : ListStart(n)
    \/ ListFetch

SpecList == Init /\ [][NextList]_vars

\* the loop of list() runs on until it breaks
SpecListFair == SpecList /\ WF_vars(ListFetch)

TypeOK ==
    /\ swpc \in {"idle", "select", "datasets", "loop", "check", "repair",
                "done", "aborted"}
    /\ clock \in 0..MaxTime

\* ----------------------------------------------------------------- paths
\* a path is the sequence of its characters; the name of a storage and the
\* name of a file stand for one character each
FileChar(f) == ToString(f)

\* storage['prefix']
Prefix(s) == <<"/", s>>

\* str.startswith(pre)
StartsWith(str, pre) ==
    /\ Len(str) >= Len(pre)
    /\ SubSeq(str, 1, Len(pre)) = pre

\* str.lstrip(c)
RECURSIVE LStrip(_, _)
LStrip(str, c) ==
    IF str # << >> /\ Head(str) = c THEN LStrip(Tail(str), c) ELSE str

\* get_filepath(storage_name, filename): os.path.join(prefix, filename)
GetFilepath(s, f) == Prefix(s) \o <<"/", FileChar(f)>>

\* get_file_resource_filename(storage_name, filepath)
GetFileResourceFilename(s, filepath) ==
    IF ~StartsWith(filepath, Prefix(s))
    THEN [ret |-> "ValueError", filename |-> << >>]
    ELSE [ret |-> "ok",
          filename |-> LStrip(SubSeq(filepath, Len(Prefix(s)) + 1,
                                     Len(filepath)), "/")]

\* the file a filename names, 0 when it names none of them
FileNamed(filename) ==
    IF \E f \in Filenames : filename = <<FileChar(f)>>
    THEN CHOOSE f \in Filenames : filename = <<FileChar(f)>>
    ELSE 0

\* the paths add_file is called with: of every place of the deployment the
\* path of its file, and the path that continues the prefix with the file's
\* name and no separator
AddFilePaths ==
    UNION {{GetFilepath(p[1], p[2]), Prefix(p[1]) \o <<FileChar(p[2])>>} :
               p \in paths}

\* ------------------------------------------- add_file, request by request
AfRunning == af.pc \in {"delete", "add_instance"}

\* the instances the loop of add_file goes through, less the first
InstancesToDelete_SkipsFirst(res) ==
    LET all == SortedIds({i.id : i \in res.file_instances})
    IN IF all = << >> THEN all ELSE Tail(all)

\* for file_instance in file_resource['file_instances']
InstancesToDelete(res) == SortedIds({i.id : i \in res.file_instances})

\* add_file(storage_name, filepath, update) up to its first request that
\* changes the catalog: the filename, get_or_create, and on a mismatch the get
\* of the resource as it is.  A call that repeats, on storages left as they
\* were, the call that was interrupted keeps the catalog that call started on.
AfBegin(s, filepath, update) ==
    /\ ~AfRunning
    /\ LET same == /\ af.pc = "crashed"
                   /\ af.storage_name = s
                   /\ af.filepath = filepath
                   /\ af.update = update
           base == [pc |-> "raised", ret |-> "", at |-> "",
                    storage_name |-> s, filepath |-> filepath,
                    update |-> update, filename |-> 0, res |-> 0,
                    todo |-> << >>, mismatch |-> FALSE,
                    start |-> IF same THEN af.start ELSE catalog,
                    rerun |-> same]
           fn == GetFileResourceFilename(s, filepath)
           f == FileNamed(fn.filename)
           goc == GetOrCreateResource(file_resources, f,
                                      GetCreatedTime(s, f), GetSize(s, f))
       IN IF fn.ret # "ok"
          THEN af' = [base EXCEPT !.ret = "ValueError"] /\ UNCHANGED catalog
          ELSE IF f = 0 \/ ~Exists(s, f)
          THEN af' = [base EXCEPT !.ret = "StorageError"] /\ UNCHANGED catalog
          ELSE IF goc.ret = "Exception"
          THEN af' = [base EXCEPT !.ret = "Exception"] /\ UNCHANGED catalog
          ELSE IF goc.ret = "FieldMismatchError" /\ ~update
          THEN /\ af' = [base EXCEPT !.ret = "FieldMismatchError"]
               /\ UNCHANGED catalog
          ELSE IF goc.ret = "FieldMismatchError"
          THEN LET old == FileResourceDict(file_resources, file_instances,
                              (CHOOSE r \in file_resources : r.filename = f).id)
               IN /\ af' = [base EXCEPT !.pc = "delete", !.filename = f,
                                        !.res = old.id,
                                        !.todo = InstancesToDelete(old),
                                        !.mismatch = TRUE]
                  /\ UNCHANGED catalog
          ELSE /\ file_resources' = goc.frs
               /\ af' = [base EXCEPT !.pc = "add_instance", !.filename = f,
                                     !.res = goc.id]
               /\ UNCHANGED file_instances
    /\ UNCHANGED <<paths, disk, clock, sweepvars, swagain, pg, last>>
    /\ UNCHANGED <<st, sw2>>

\* one round of the loop that sets the instances of the resource deleted
AfDelete ==
    /\ af.pc = "delete"
    /\ af.todo # << >>
    /\ file_instances' = UpdateInstance(file_instances, Head(af.todo), TRUE)
    /\ af' = [af EXCEPT !.todo = Tail(af.todo)]
    /\ UNCHANGED <<paths, disk, clock, file_resources, sweepvars, swagain,
                   pg, last>>
    /\ UNCHANGED <<st, sw2>>

\* the loop is through: update the resource to what the storage reports
AfUpdate ==
    /\ af.pc = "delete"
    /\ af.todo = << >>
    /\ file_resources' =
           UpdateResource(file_resources, af.res,
                          GetCreatedTime(af.storage_name, af.filename),
                          GetSize(af.storage_name, af.filename))
    /\ af' = [af EXCEPT !.pc = "add_instance"]
    /\ UNCHANGED <<paths, disk, clock, file_instances, sweepvars, swagain,
                   pg, last>>
    /\ UNCHANGED <<st, sw2>>

\* add_instance(file_resource, storage), and add_file returns
AfAddInstance ==
    /\ af.pc = "add_instance"
    /\ LET ai == AddInstance(file_instances, af.res, af.storage_name)
       IN IF ai.ret = "ok"
          THEN /\ file_instances' = ai.fis
               /\ af' = [af EXCEPT !.pc = "returned", !.ret = "ok"]
          ELSE /\ af' = [af EXCEPT !.pc = "raised", !.ret = "Exception"]
               /\ UNCHANGED file_instances
    /\ UNCHANGED <<paths, disk, clock, file_resources, sweepvars, swagain,
                   pg, last>>
    /\ UNCHANGED <<st, sw2>>

\* the process that runs add_file dies between two requests
AfCrash ==
    /\ AfRunning
    /\ af' = [af EXCEPT !.pc = "crashed", !.at = af.pc]
    /\ UNCHANGED <<paths, disk, clock, catalog, sweepvars, swagain, pg, last>>
    /\ UNCHANGED <<st, sw2>>

\* the deployment with one file on every storage
InitOneFile == Init /\ paths = Storages \X {1}

\* files are written and copied; the storages stand still while an add_file
\* runs
NextAddFile ==
    \/ /\ ~AfRunning
       /\ \E s \in Storages, f \in Filenames, size \in Sizes :
              WriteFile(s, f, size)
    \/ /\ ~AfRunning
       /\ \E s \in Storages, t \in Storages, f \in Filenames : CopyFile(s, t, f)
    \/ \E s \in Known, filepath \in AddFilePaths, update \in BOOLEAN :
           AfBegin(s, filepath, update)
    \/ AfDelete
    \/ AfUpdate
    \/ AfAddInstance
    \/ AfCrash

SpecAddFile == InitOneFile /\ [][NextAddFile]_vars


\* ---------------------------------- check_integrity.py: the run made again
\* main() is run once more with the command line of the run that has ended
SweepAgain ==
    /\ swpc \in {"done", "aborted"}
    /\ swqueue' = ListOnStorage(file_resources, file_instances,
                                swargs.storage_name)
    /\ swpc' = "loop"
    /\ swcur' = NoInstance
    /\ swflags' = NoFlags
    /\ swagain' = TRUE
    /\ last' = Call("sweep_start", "ok", swargs.storage_name, 0, NoResource,
                    NoInstance, Nothing)
    /\ UNCHANGED <<paths, disk, clock, catalog, swargs, af, pg>>
    /\ UNCHANGED <<st, sw2>>

NextRerun ==
    \/ \E s \in Storages, f \in Filenames, size \in Sizes : WriteFile(s, f, size)
    \/ \E s \in Storages, f \in Filenames : RemoveFile(s, f)
    \/ \E s \in Known, f \in Filenames, update \in BOOLEAN :
           AddFileOp(s, f, update)
    \/ \E s \in Known, dry_run \in BOOLEAN, fix_corrupt \in BOOLEAN,
          remove_missing \in BOOLEAN :
           SweepStart(s, dry_run, fix_corrupt, remove_missing)
    \/ SweepFetch
    \/ SweepCheck
    \/ SweepRepair
    \/ SweepFinish
    \/ SweepAgain

SpecRerun == Init /\ [][NextRerun]_vars

\* --------------------------- check_integrity.py: the run chosen by dataset
DatasetModels == {"sequencedataset", "resultsdataset"}

\* filters=None, the default of get_dataset_file_resources
NoFilters == "None"

\* get_dataset_file_resources(dataset_id, dataset_model, filters), the
\* dataset given as the ids of its file resources: the ids that list() yields,
\* or what is raised; **filters raises TypeError when filters is None
GetDatasetFileResources(dataset, dataset_model, filters) ==
    IF dataset_model \in DatasetModels
    THEN IF filters = NoFilters
         THEN [ret |-> "TypeError", ids |-> << >>]
         ELSE [ret |-> "ok", ids |-> SortedIds(dataset)]
    ELSE [ret |-> "ValueError", ids |-> << >>]

\* the datasets a selection can come to: none, or one dataset holding some of
\* the file resources
DatasetSelections ==
    {<< >>} \cup
    {<<ids>> : ids \in SUBSET {r.id : r \in file_resources} \ {{}}}

\* lines 59-67 and 13-29: main() with --dataset_type; get_dataset_file_instances
\* is a generator, its body runs when the for loop asks for the first resource
SweepDatasetStart(s, dataset_type, datasets, dry_run, fix_corrupt, remove_missing) ==
    /\ SweepIdle
    /\ swargs' = [storage_name |-> s, dry_run |-> dry_run,
                  fix_corrupt |-> fix_corrupt,
                  remove_missing |-> remove_missing,
                  dataset_type |-> dataset_type, datasets |-> datasets]
    /\ swqueue' = << >>
    /\ swpc' = "datasets"
    /\ swcur' = NoInstance
    /\ swflags' = NoFlags
    /\ swagain' = FALSE
    /\ last' = Call("sweep_start", "ok", s, 0, NoResource, NoInstance, Nothing)
    /\ UNCHANGED <<paths, disk, clock, catalog, af, pg>>
    /\ UNCHANGED <<st, sw2>>

\* lines 31-37, reached from line 70: the next dataset's file resources are
\* asked for, with no filters
SweepDataset ==
    /\ swpc = "datasets"
    /\ IF swargs.datasets = << >>
       THEN /\ swpc' = "done"
            /\ last' = Call("sweep_finish", "ok", swargs.storage_name, 0,
                            NoResource, NoInstance, Nothing)
            /\ UNCHANGED <<swargs, swqueue>>
       ELSE LET r == GetDatasetFileResources(Head(swargs.datasets),
                                             swargs.dataset_type, NoFilters)
            IN /\ last' = Call("sweep_dataset", r.ret, swargs.storage_name, 0,
                               NoResource, NoInstance, Nothing)
               /\ IF r.ret = "ok"
                  THEN /\ swpc' = "loop"
                       /\ swqueue' = r.ids
                       /\ swargs' = [swargs EXCEPT
                                        !.datasets = Tail(swargs.datasets)]
                  ELSE \* nothing catches it
                       /\ swpc' = "aborted"
                       /\ UNCHANGED <<swargs, swqueue>>
    /\ UNCHANGED <<paths, disk, clock, catalog, swcur, swflags, swagain, af,
                   pg>>
    /\ UNCHANGED <<st, sw2>>

NextDataset ==
    \/ \E s \in Storages, f \in Filenames, size \in Sizes : WriteFile(s, f, size)
    \/ \E s \in Known, f \in Filenames, update \in BOOLEAN :
           AddFileOp(s, f, update)
    \/ \E s \in Known, dataset_type \in DatasetModels,
          datasets \in DatasetSelections, dry_run \in BOOLEAN,
          fix_corrupt \in BOOLEAN, remove_missing \in BOOLEAN :
           SweepDatasetStart(s, dataset_type, datasets, dry_run, fix_corrupt,
                             remove_missing)
    \/ SweepDataset

SpecDataset == InitOneFile /\ [][NextDataset]_vars


\* ------------------------------------------------------------------- get()
\* get that takes one of several matches
Get_FirstOfSeveral(found) ==
    IF found = {} THEN [ret |-> "NotFoundError", id |-> 0]
    ELSE [ret |-> "ok", id |-> (CHOOSE x \in found : TRUE).id]

\* get(kind, **filters), found being the records of the kind that match the
\* filters
Get(found) ==
    IF found = {} THEN [ret |-> "NotFoundError", id |-> 0]
    ELSE IF Cardinality(found) > 1 THEN [ret |-> "AmbiguousResult", id |-> 0]
    ELSE [ret |-> "ok", id |-> (CHOOSE x \in found : TRUE).id]

\* get('file_instance', storage__name=s)
GetOp(s) ==
    /\ SweepIdle
    /\ LET g == Get({i \in file_instances : i.storage = s})
       IN last' = Call("get", g.ret, s, 0, NoResource,
                       IF g.ret = "ok"
                       THEN FileInstanceDict(file_resources, file_instances,
                                             g.id)
                       ELSE NoInstance, Nothing)
    /\ SweepExit
    /\ UNCHANGED <<paths, disk, clock, catalog, af, pg>>
    /\ UNCHANGED st

\* get_file_instance is called with a file resource fetched from the catalog
GetFileInstanceOp(rid, s) ==
    /\ SweepIdle
    /\ rid \in {r.id : r \in file_resources}
    /\ LET res == FileResourceDict(file_resources, file_instances, rid)
           g == GetFileInstance(res, s)
       IN last' = Call("get_file_instance", g.ret, s, res.filename, g.res,
                       g.inst, Nothing)
    /\ SweepExit
    /\ UNCHANGED <<paths, disk, clock, catalog, af, pg>>
    /\ UNCHANGED st

NextGet ==
    \/ \E s \in Storages, f \in Filenames, size \in Sizes : WriteFile(s, f, size)
    \/ \E s \in Known, f \in Filenames, update \in BOOLEAN :
           AddFileOp(s, f, update)
    \/ \E s \in Known : GetOp(s)
    \/ \E rid \in 1..NumFiles, s \in Storages : GetFileInstanceOp(rid, s)

SpecGet == Init /\ [][NextGet]_vars


\* ------------------------------------------- get_storage, get_storage_client
\* storage_type of a storage record; the client has no class for "tape"
StorageTypes == {"blob", "server", "tape"}

\* the storage record of the catalog is written: the storage is provisioned,
\* or configured anew
ProvisionStorage(n, type) ==
    /\ st.catalog[n].version < MaxVersion
    /\ st' = [st EXCEPT !.catalog[n] =
                            [storage_type |-> type,
                             version |-> st.catalog[n].version + 1]]
    /\ UNCHANGED <<paths, disk, clock, catalog, sweepvars, swagain, af, pg,
                   sw2, last>>

\* get_storage that asks the catalog each time
GetStorage_NoCache(s0, name) ==
    LET s1 == [s0 EXCEPT !.queries[name] = s0.queries[name] + 1]
    IN IF s0.catalog[name] = NoStorage
       THEN [ret |-> "NotFoundError", hit |-> FALSE, storage |-> NoStorage,
             st |-> s1]
       ELSE [ret |-> "ok", hit |-> FALSE, storage |-> s0.catalog[name],
             st |-> s1]

\* get_storage(storage_name) on the client state s0: what it returns or
\* raises, whether the cache served it, and the client state it leaves
GetStorage(s0, name) ==
    IF s0.cached_storages[name] # NoStorage
    THEN [ret |-> "ok", hit |-> TRUE, storage |-> s0.cached_storages[name],
          st |-> s0]
    ELSE LET s1 == [s0 EXCEPT !.queries[name] = s0.queries[name] + 1]
         IN IF s0.catalog[name] = NoStorage
            THEN [ret |-> "NotFoundError", hit |-> FALSE,
                  storage |-> NoStorage, st |-> s1]
            ELSE [ret |-> "ok", hit |-> FALSE, storage |-> s0.catalog[name],
                  st |-> [s1 EXCEPT !.cached_storages[name] =
                                        s0.catalog[name]]]

\* the client constructed for a storage record; for a storage_type without a
\* class get_storage_client returns the ValueError it should raise
NewClient(storage, obj) ==
    [class |-> IF storage.storage_type = "blob" THEN "BlobStorageClient"
               ELSE IF storage.storage_type = "server"
               THEN "ServerStorageClient" ELSE "ValueError",
     obj |-> obj, version |-> storage.version]

\* get_storage_client that constructs a client each time
GetStorageClient_Rebuilds(s0, name) ==
    LET g == GetStorage(s0, name)
        client == NewClient(g.storage, g.st.objects + 1)
    IN IF g.ret # "ok"
       THEN [ret |-> g.ret, hit |-> FALSE, client |-> NoClient, st |-> g.st]
       ELSE IF client.class = "ValueError"
       THEN [ret |-> "ok", hit |-> FALSE, client |-> [client EXCEPT !.obj = 0],
             st |-> g.st]
       ELSE [ret |-> "ok", hit |-> FALSE, client |-> client,
             st |-> [g.st EXCEPT !.objects = g.st.objects + 1,
                                 !.cached_storage_clients[name] = client]]

\* get_storage_client(storage_name) on the client state s0
GetStorageClient(s0, name) ==
    IF s0.cached_storage_clients[name] # NoClient
    THEN [ret |-> "ok", hit |-> TRUE,
          client |-> s0.cached_storage_clients[name], st |-> s0]
    ELSE LET g == GetStorage(s0, name)
             client == NewClient(g.storage, g.st.objects + 1)
         IN IF g.ret # "ok"
            THEN [ret |-> g.ret, hit |-> FALSE, client |-> NoClient,
                  st |-> g.st]
            ELSE IF client.class = "ValueError"
            THEN [ret |-> "ok", hit |-> FALSE,
                  client |-> [client EXCEPT !.obj = 0], st |-> g.st]
            ELSE [ret |-> "ok", hit |-> FALSE, client |-> client,
                  st |-> [g.st EXCEPT !.objects = g.st.objects + 1,
                                      !.cached_storage_clients[name] = client]]

GetStorageOp(n) ==
    /\ st.queries[n] < MaxQueries
    /\ LET g == GetStorage(st, n)
       IN st' = [g.st EXCEPT !.call = [op |-> "get_storage", name |-> n,
                                       ret |-> g.ret, hit |-> g.hit,
                                       value |-> g.storage]]
    /\ UNCHANGED <<paths, disk, clock, catalog, sweepvars, swagain, af, pg,
                   sw2, last>>

GetStorageClientOp(n) ==
    /\ st.queries[n] < MaxQueries
    /\ LET g == GetStorageClient(st, n)
       IN st' = [g.st EXCEPT !.call = [op |-> "get_storage_client",
                                       name |-> n, ret |-> g.ret,
                                       hit |-> g.hit, value |-> g.client]]
    /\ UNCHANGED <<paths, disk, clock, catalog, sweepvars, swagain, af, pg,
                   sw2, last>>

NextStorage ==
    \/ \E n \in Storages, type \in StorageTypes : ProvisionStorage(n, type)
    \/ \E n \in Storages : GetStorageOp(n)
    \/ \E n \in Storages : GetStorageClientOp(n)

SpecStorage == InitOneFile /\ [][NextStorage]_vars


\* --------------------------------------------------------------- create()
\* the variant of a storage's client
StorageType(s) == IF s = "s1" THEN "server" ELSE "blob"

\* the local files create() is called with: a file of any size, and for a
\* filesystem storage the destination itself under another path
LocalFiles(s, f) ==
    {[size |-> z, same |-> FALSE] : z \in Sizes}
        \cup (IF StorageType(s) = "server" /\ Exists(s, f)
              THEN {[size |-> GetSize(s, f), same |-> TRUE]} ELSE {})

\* BlobStorageClient.create(blobname, filepath) at time now
BlobCreate(d, s, f, local, now) ==
    IF d[s][f] # NoFile
    THEN IF d[s][f].size # local.size
         THEN [ret |-> "Exception", wrote |-> FALSE, disk |-> d]
         ELSE [ret |-> "ok", wrote |-> FALSE, disk |-> d]
    ELSE [ret |-> "ok", wrote |-> TRUE,
          disk |-> [d EXCEPT ![s][f] = [size |-> local.size, created |-> now]]]

\* ServerStorageClient.create(filename, filepath) at time now: os.path.samefile
\* stats both paths and raises when the destination is absent; shutil.copy
\* writes over a destination that is another file
ServerCreate(d, s, f, local, now) ==
    IF d[s][f] = NoFile
    THEN [ret |-> "FileNotFoundError", wrote |-> FALSE, disk |-> d]
    ELSE IF local.same
    THEN [ret |-> "ok", wrote |-> FALSE, disk |-> d]
    ELSE [ret |-> "ok", wrote |-> TRUE,
          disk |-> [d EXCEPT ![s][f] = [size |-> local.size, created |-> now]]]

\* storage_client.create(filename, filepath) of the storage's variant
Create(d, s, f, local, now) ==
    IF StorageType(s) = "blob" THEN BlobCreate(d, s, f, local, now)
    ELSE ServerCreate(d, s, f, local, now)

CreateOp(s, f, local) ==
    /\ SweepIdle
    /\ <<s, f>> \in paths
    /\ clock < MaxTime
    /\ LET r == Create(disk, s, f, local, clock + 1)
       IN /\ disk' = r.disk
          /\ clock' = IF r.wrote THEN clock + 1 ELSE clock
          /\ last' = [op |-> "create", ret |-> r.ret, storage |-> s,
                      filename |-> f, res |-> NoResource, inst |-> NoInstance,
                      did |-> <<StorageType(s),
                                IF r.wrote THEN "wrote" ELSE "">>,
                      local |-> local]
    /\ SweepExit
    /\ af' = NoAddFile /\ UNCHANGED pg
    /\ UNCHANGED <<paths, catalog>>
    /\ UNCHANGED st

NextIngest ==
    \/ \E s \in Storages, f \in Filenames, size \in Sizes : WriteFile(s, f, size)
    \/ \E s \in Storages, f \in Filenames : RemoveFile(s, f)
    \/ \E s \in Storages, f \in Filenames :
           \E local \in LocalFiles(s, f) : CreateOp(s, f, local)

SpecIngest == Init /\ [][NextIngest]_vars


\* ------------------------------------------------- main(): the selection
\* an option that is not given
None == "None"

\* the selection options of a run
SelectionOptions ==
    [all_file_instances : BOOLEAN, dataset_type : {None, "sequencedataset"},
     dataset_id : {None, "1"}, tag_name : {None, "t"}]

\* lines 49-68: main() with any selection options; with --all_file_instances
\* the resources with an instance on the storage are listed and no other
\* option is looked at, without it get_dataset_file_instances is called, a
\* generator whose body runs when the for loop asks for the first resource
SweepSelect(s, cli, datasets, dry_run, fix_corrupt, remove_missing) ==
    /\ SweepIdle
    /\ swargs' = [storage_name |-> s, dry_run |-> dry_run,
                  fix_corrupt |-> fix_corrupt,
                  remove_missing |-> remove_missing,
                  dataset_type |-> cli.dataset_type,
                  datasets |-> IF cli.all_file_instances THEN << >>
                               ELSE datasets,
                  cli |-> cli]
    /\ swqueue' = IF cli.all_file_instances
                  THEN ListOnStorage(file_resources, file_instances, s)
                  ELSE << >>
    /\ swpc' = IF cli.all_file_instances THEN "loop" ELSE "select"
    /\ swcur' = NoInstance
    /\ swflags' = NoFlags
    /\ swagain' = FALSE
    /\ last' = Call("sweep_start", "ok", s, 0, NoResource, NoInstance, Nothing)
    /\ UNCHANGED <<paths, disk, clock, catalog, af, pg>>
    /\ UNCHANGED <<st, sw2>>

\* lines 13-29: the checks of get_dataset_file_instances and the list of the
\* datasets
SweepValidate ==
    /\ swpc = "select"
    /\ LET raised ==
               \/ swargs.cli.dataset_type = None
               \/ swargs.cli.dataset_id # None /\ swargs.cli.tag_name # None
       IN /\ swpc' = IF raised THEN "aborted" ELSE "datasets"
          /\ last' = Call("sweep_select",
                          IF raised THEN "ValueError" ELSE "ok",
                          swargs.storage_name, 0, NoResource, NoInstance,
                          Nothing)
    /\ UNCHANGED <<paths, disk, clock, catalog, swargs, swqueue, swcur,
                   swflags, swagain, af, pg>>
    /\ UNCHANGED <<st, sw2>>

NextSelect ==
    \/ \E s \in Storages, f \in Filenames, size \in Sizes : WriteFile(s, f, size)
    \/ \E s \in Known, f \in Filenames : AddFileOp(s, f, FALSE)
    \/ \E s \in Known, cli \in SelectionOptions,
          datasets \in DatasetSelections, fix_corrupt \in BOOLEAN :
           SweepSelect(s, cli, datasets, FALSE, fix_corrupt, FALSE)
    \/ SweepValidate
    \/ SweepDataset
    \/ SweepFetch
    \/ SweepCheck
    \/ SweepRepair
    \/ SweepFinish

SpecSelect == InitOneFile /\ [][NextSelect]_vars


\* ------------------------------------------- two sweeps on the same storage
\* one step of the for loop of main() for a process at p = [pc, queue, cur,
\* flags], run with args on the catalog <<frs, fis>>: lines 70-83 at "loop",
\* 85-94 at "check", 96-112 at "repair"; the process it leaves and the catalog
SweepStep(p, args, frs, fis) ==
    IF p.pc = "loop"
    THEN IF p.queue = << >>
         THEN [p |-> [p EXCEPT !.pc = "done"], frs |-> frs, fis |-> fis]
         ELSE LET found == {i \in fis : /\ i.file_resource = Head(p.queue)
                                        /\ i.storage = args.storage_name}
              IN IF found = {}
                 THEN [p |-> [p EXCEPT !.queue = Tail(p.queue)],
                       frs |-> frs, fis |-> fis]
                 ELSE IF Cardinality(found) > 1
                 THEN [p |-> [p EXCEPT !.pc = "aborted"],
                       frs |-> frs, fis |-> fis]
                 ELSE LET inst == FileInstanceDict(frs, fis,
                                      (CHOOSE x \in found : TRUE).id)
                      IN IF Skips(inst)
                         THEN [p |-> [p EXCEPT !.queue = Tail(p.queue)],
                               frs |-> frs, fis |-> fis]
                         ELSE [p |-> [p EXCEPT !.pc = "check", !.cur = inst],
                               frs |-> frs, fis |-> fis]
    ELSE IF p.pc = "check"
    THEN LET raised == CheckFile(p.cur)
         IN [p |-> [p EXCEPT !.pc = "repair",
                             !.flags =
                                 [file_corrupt |-> raised = "DataCorruptionError",
                                  file_missing |-> raised = "DataMissingError"]],
             frs |-> frs, fis |-> fis]
    ELSE LET fix == DoFix(p.flags, args)
             remove == DoRemove(p.flags, args)
             uf == UpdateFile(frs, p.cur)
         IN IF fix /\ uf.ret # "ok"
            THEN [p |-> [p EXCEPT !.pc = "aborted", !.cur = NoInstance,
                                  !.flags = NoFlags],
                  frs |-> frs, fis |-> fis]
            ELSE [p |-> [p EXCEPT !.pc = "loop", !.queue = Tail(p.queue),
                                  !.cur = NoInstance, !.flags = NoFlags],
                  frs |-> IF fix THEN uf.frs ELSE frs,
                  fis |-> IF remove
                          THEN UpdateInstance(fis, p.cur.id, TRUE) ELSE fis]

\* the for loop run from p to its end, nothing else touching the catalog
RECURSIVE RunSweep(_, _, _, _)
RunSweep(p, args, frs, fis) ==
    IF p.pc \in {"done", "aborted"}
    THEN <<frs, fis>>
    ELSE LET r == SweepStep(p, args, frs, fis)
         IN RunSweep(r.p, args, r.frs, r.fis)

\* the catalog a single sweep with args leaves of the catalog <<frs, fis>>
SingleSweep(args, frs, fis) ==
    RunSweep([pc |-> "loop",
              queue |-> ListOnStorage(frs, fis, args.storage_name),
              cur |-> NoInstance, flags |-> NoFlags], args, frs, fis)

\* two sweeps are started on the same storage with the same flags: the one
\* lists its file resources, the other is yet to; start keeps the catalog they
\* are started on, raced tells that the second has repaired a record the first
\* had repaired since the second read it
SweepPairStart(s, dry_run, fix_corrupt, remove_missing) ==
    /\ SweepIdle
    /\ swargs' = [storage_name |-> s, dry_run |-> dry_run,
                  fix_corrupt |-> fix_corrupt,
                  remove_missing |-> remove_missing]
    /\ swqueue' = ListOnStorage(file_resources, file_instances, s)
    /\ swpc' = "loop"
    /\ swcur' = NoInstance
    /\ swflags' = NoFlags
    /\ swagain' = FALSE
    /\ sw2' = [pc |-> "start", queue |-> << >>, cur |-> NoInstance,
               flags |-> NoFlags, start |-> catalog, raced |-> FALSE]
    /\ last' = Call("sweep_start", "ok", s, 0, NoResource, NoInstance, Nothing)
    /\ UNCHANGED <<paths, disk, clock, catalog, af, pg, st>>

\* lines 59-68 in the second process
Sweep2Start ==
    /\ sw2.pc = "start"
    /\ sw2' = [sw2 EXCEPT !.pc = "loop",
                          !.queue = ListOnStorage(file_resources,
                                        file_instances, swargs.storage_name)]
    /\ UNCHANGED <<paths, disk, clock, catalog, sweepvars, swagain, af, pg,
                   st, last>>

\* lines 70-112 in the second process, a step at a time
Sweep2Step ==
    /\ sw2.pc \in {"loop", "check", "repair"}
    /\ LET r == SweepStep([pc |-> sw2.pc, queue |-> sw2.queue,
                           cur |-> sw2.cur, flags |-> sw2.flags],
                          swargs, file_resources, file_instances)
           stale == /\ sw2.pc = "repair"
                    /\ DoFix(sw2.flags, swargs)
                    /\ r.p.pc = "loop"
                    /\ \E x \in file_resources :
                           /\ x.id = sw2.cur.file_resource.id
                           /\ x.size # sw2.cur.file_resource.size
       IN /\ sw2' = [pc |-> r.p.pc, queue |-> r.p.queue, cur |-> r.p.cur,
                     flags |-> r.p.flags, start |-> sw2.start,
                     raced |-> sw2.raced \/ stale]
          /\ file_resources' = r.frs
          /\ file_instances' = r.fis
    /\ UNCHANGED <<paths, disk, clock, sweepvars, swagain, af, pg, st, last>>

NextConcurrent ==
    \/ \E s \in Storages, f \in Filenames, size \in Sizes : WriteFile(s, f, size)
    \/ \E s \in Storages, f \in Filenames : RemoveFile(s, f)
    \/ \E s \in Known, f \in Filenames : AddFileOp(s, f, FALSE)
    \/ \E s \in Known, fix_corrupt \in BOOLEAN :
           SweepPairStart(s, FALSE, fix_corrupt, TRUE)
    \/ SweepFetch
    \/ SweepCheck
    \/ SweepRepair
    \/ SweepFinish
    \/ Sweep2Start
    \/ Sweep2Step

\* the deployment with every file on one storage
InitOneStorage == Init /\ paths = {"s1"} \X Filenames

SpecConcurrent == InitOneStorage /\ [][NextConcurrent]_vars


\* ------------------------------------- the sweep over a paginated selection
\* a catalog of n file resources, each with one instance: every third one on
\* s2, the others on s1; of every second one the catalog's size is not the
\* storage's; the file of the first is gone from its storage when absent
SweepRecords(n, absent) ==
    [id \in 1..n |->
        [storage |-> IF id % 3 = 0 THEN "s2" ELSE "s1",
         is_deleted |-> FALSE,
         file |-> IF absent /\ id = 1 THEN "absent"
                  ELSE IF id % 2 = 1 THEN "corrupt" ELSE "ok"]]

\* the file resources list('file_resource', fileinstance__storage__name=s)
\* matches in the catalog recs, in the store's order (by id)
Matching(recs, s, n) ==
    LET OnStorage(id) == recs[id].storage = s
    IN SelectSeq([id \in 1..n |-> id], OnStorage)

\* lines 59-64: the sweep is started on s1 with --all_file_instances; list()
\* is a generator and asks for nothing yet
LazySweepStart(n, fix_corrupt, absent) ==
    /\ pg.pc = "idle"
    /\ pg' = [pc |-> "fetch", n |-> n, params |-> InitialParams,
              out |-> << >>, fetches |-> 0, buf |-> << >>, short |-> FALSE,
              recs |-> SweepRecords(n, absent), fix_corrupt |-> fix_corrupt,
              start |-> Matching(SweepRecords(n, absent), "s1", n)]
    /\ UNCHANGED <<paths, disk, clock, catalog, sweepvars, swagain, af, last>>
    /\ UNCHANGED <<st, sw2>>

\* the for loop asks for a resource and list() has none at hand: it fetches
\* the page at its cursor from the catalog as it is now
LazySweepFetch ==
    /\ pg.pc = "fetch"
    /\ LET match == Matching(pg.recs, "s1", pg.n)
           page == Page(Len(match), pg.params)
       IN pg' = [pg EXCEPT
                    !.buf = [i \in 1..Len(page) |-> match[page[i]]],
                    !.fetches = pg.fetches + 1,
                    !.short = Len(page) < pg.params.limit,
                    !.pc = "visit"]
    /\ UNCHANGED <<paths, disk, clock, catalog, sweepvars, swagain, af, last>>
    /\ UNCHANGED <<st, sw2>>

\* lines 70-112 for the next resource of the page: check_file raises
\* DataCorruptionError for a file that is absent or of another size; with
\* --fix_corrupt update_file resyncs the resource, or raises when the file is
\* absent, which ends the sweep
LazySweepVisit ==
    /\ pg.pc = "visit"
    /\ pg.buf # << >>
    /\ LET id == Head(pg.buf)
           rec == pg.recs[id]
           file_corrupt == ~rec.is_deleted /\ rec.file # "ok"
       IN IF file_corrupt /\ pg.fix_corrupt /\ rec.file = "absent"
          THEN pg' = [pg EXCEPT !.out = Append(pg.out, id),
                                !.pc = "aborted"]
          ELSE pg' = [pg EXCEPT !.out = Append(pg.out, id),
                                !.buf = Tail(pg.buf),
                                !.recs[id].file =
                                    IF file_corrupt /\ pg.fix_corrupt
                                    THEN "ok" ELSE rec.file]
    /\ UNCHANGED <<paths, disk, clock, catalog, sweepvars, swagain, af, last>>
    /\ UNCHANGED <<st, sw2>>

\* the page is through: list() ends after a short page, else moves its cursor
LazySweepNext ==
    /\ pg.pc = "visit"
    /\ pg.buf = << >>
    /\ pg' = IF pg.short THEN [pg EXCEPT !.pc = "done"]
             ELSE [pg EXCEPT !.pc = "fetch",
                             !.params = NextPageParams(pg.params)]
    /\ UNCHANGED <<paths, disk, clock, catalog, sweepvars, swagain, af, last>>
    /\ UNCHANGED <<st, sw2>>

NextLazySweep ==
    \/ \E n \in 0..MaxRecords, fix_corrupt \in BOOLEAN, absent \in BOOLEAN :
           LazySweepStart(n, fix_corrupt, absent)
    \/ LazySweepFetch
    \/ LazySweepVisit
    \/ LazySweepNext

SpecLazySweep == InitOneFile /\ [][NextLazySweep]_vars


\* ------------------------------------------------------- path conversion
\* the characters of the paths: the separator, the dot, and one character
\* for each storage name and each file name
PathChars == {"/", "."} \cup Storages \cup {FileChar(f) : f \in Filenames}

\* the paths of up to MaxPathLen characters
PathsUpTo == UNION {[1..n -> PathChars] : n \in 0..MaxPathLen}

\* '..' in filename
HasDotDot(filename) ==
    \E i \in 1..(Len(filename) - 1) : filename[i] = "." /\ filename[i + 1] = "."

\* get_filepath(storage_name, filename) for any filename: ValueError for one
\* that starts with '/' or holds '..', else os.path.join(prefix, filename)
GetFilepathOf(s, filename) ==
    IF (filename # << >> /\ Head(filename) = "/") \/ HasDotDot(filename)
    THEN [ret |-> "ValueError", filepath |-> << >>]
    ELSE [ret |-> "ok", filepath |-> Prefix(s) \o <<"/">> \o filename]

\* a call of get_file_resource_filename that is yet to be made
PathInput(s, filepath) ==
    [op |-> "input", ret |-> "", storage |-> s, filepath |-> filepath,
     filename |-> << >>, back |-> [ret |-> "", filepath |-> << >>]]

\* the client as constructed, and a storage and a path to convert
InitPaths ==
    /\ paths = Storages \X {1}
    /\ disk = [s \in Storages |-> [f \in Filenames |-> NoFile]]
    /\ clock = 0
    /\ file_resources = {}
    /\ file_instances = {}
    /\ swpc = "idle"
    /\ swargs = NoArgs
    /\ swqueue = << >>
    /\ swcur = NoInstance
    /\ swflags = NoFlags
    /\ swagain = FALSE
    /\ af = NoAddFile
    /\ pg = NoList
    /\ st = NoStorages
    /\ sw2 = NoSweep2
    /\ \E s \in Storages, filepath \in PathsUpTo : last = PathInput(s, filepath)

\* get_file_resource_filename(storage_name, filepath) is called, and
\* get_filepath with the filename it returns
ConvertPath ==
    /\ last.op = "input"
    /\ LET fn == GetFileResourceFilename(last.storage, last.filepath)
       IN last' = [last EXCEPT
                      !.op = "get_file_resource_filename",
                      !.ret = fn.ret,
                      !.filename = fn.filename,
                      !.back = IF fn.ret = "ok"
                               THEN GetFilepathOf(last.storage, fn.filename)
                               ELSE last.back]
    /\ UNCHANGED <<paths, disk, clock, catalog, sweepvars, swagain, af, pg,
                   st, sw2>>

NextPaths == ConvertPath

SpecPaths == InitPaths /\ [][NextPaths]_vars


\* ----------------------------------------- is_sequence_dataset_on_storage
\* is_sequence_dataset_on_storage(dataset, storage_name), the dataset given
\* as the ids of its file resources: False at the first file resource for
\* which get_file_instance raises NotFoundError, True when none does
IsSequenceDatasetOnStorage(frs, fis, dataset, storage_name) ==
    \A rid \in dataset :
        GetFileInstance(FileResourceDict(frs, fis, rid), storage_name).ret
            # "NotFoundError"

IsSequenceDatasetOnStorageOp(dataset, s) ==
    /\ SweepIdle
    /\ last' = [op |-> "is_sequence_dataset_on_storage",
                ret |-> IsSequenceDatasetOnStorage(file_resources,
                            file_instances, dataset, s),
                storage |-> s, dataset |-> dataset]
    /\ SweepExit
    /\ UNCHANGED <<paths, disk, clock, catalog, af, pg>>
    /\ UNCHANGED st

NextOnStorage ==
    \/ \E s \in Storages, f \in Filenames, size \in Sizes : WriteFile(s, f, size)
    \/ \E s \in Known, f \in Filenames, update \in BOOLEAN :
           AddFileOp(s, f, update)
    \/ \E dataset \in SUBSET {r.id : r \in file_resources}, s \in Known :
           IsSequenceDatasetOnStorageOp(dataset, s)

SpecOnStorage == Init /\ [][NextOnStorage]_vars

\* ------------------------------------------------------------ properties
AddFileCalled == last.op \in {"add_file", "add_file_update"}

\* the file resource of a filename, fetched from the catalog now
Refetched(f) ==
    FileResourceDict(file_resources, file_instances,
                     (CHOOSE r \in file_resources : r.filename = f).id)

Resolves(res, s, f) ==
    LET g == GetFileInstance(res, s)
    IN /\ g.ret = "ok"
       /\ ~g.inst.is_deleted
       /\ res.size = GetSize(s, f)
       /\ res.created = GetCreatedTime(s, f)

\* C1, as stated: after add_file returns, get_file_instance on the file
\* resource it returned gives a non-deleted instance on the storage, and the
\* resource's size and created are the live ones
C1_ResolvesReturnedResource ==
    (AddFileCalled /\ last.ret = "ok")
        => Resolves(last.res, last.storage, last.filename)

\* C1, amended: add_file succeeds for an existing file unless it meets a
\* mismatch with update=False, and after it returns get_file_instance on the
\* file resource fetched again from the catalog gives a non-deleted instance
\* on the storage, the resource's size and created being the live ones
C1_ResolvesRefetchedResource ==
    AddFileCalled =>
        /\ (Exists(last.storage, last.filename) /\ last.op = "add_file_update")
               => last.ret = "ok"
        /\ last.ret = "ok" =>
               /\ Resolves(Refetched(last.filename), last.storage,
                           last.filename)
               /\ last.res.size = GetSize(last.storage, last.filename)
               /\ last.res.created = GetCreatedTime(last.storage, last.filename)
               /\ ~last.inst.is_deleted

\* add_file met a mismatching resource whose instance on the storage it
\* deleted and add_instance revived
C1_Witness ==
    /\ last.op = "add_file_update"
    /\ last.ret = "ok"
    /\ last.did = <<"updated", "revived">>

NonDeleted(rid, s) ==
    {i \in file_instances :
        i.file_resource = rid /\ i.storage = s /\ ~i.is_deleted}

OnPair(fis, rid, s) == {i \in fis : i.file_resource = rid /\ i.storage = s}

ResourceIds == {r.id : r \in file_resources}

\* C2: there is at most one non-deleted file instance for each
\* (file_resource, storage) pair
C2_OneLiveInstancePerPair ==
    \A rid \in ResourceIds, s \in Storages : Cardinality(NonDeleted(rid, s)) <= 1

\* a resource with an instance on each storage, one of them revived by the
\* call just made
C2_Witness ==
    /\ last.ret = "ok"
    /\ last.did[2] = "revived"
    /\ \E rid \in ResourceIds :
           \A s \in Storages : OnPair(file_instances, rid, s) # {}

\* C3: add_instance called twice for the same (resource, storage) returns the
\* same instance id both times, and the second call leaves the number of
\* instance records of the pair as the first call left it
C3_AddInstanceIdempotent ==
    \A rid \in ResourceIds, s \in Storages :
        LET a == AddInstance(file_instances, rid, s)
            b == AddInstance(a.fis, rid, s)
        IN a.ret = "ok" =>
               /\ b.ret = "ok"
               /\ b.id = a.id
               /\ Cardinality(OnPair(b.fis, rid, s))
                      = Cardinality(OnPair(a.fis, rid, s))
               /\ Cardinality(OnPair(b.fis, rid, s)) = 1

\* add_instance was called on a pair that had its instance already
C3_Witness ==
    /\ last.op = "add_instance"
    /\ last.ret = "ok"
    /\ last.did[2] = "found"

InstanceOfCall(fis, frs, call) ==
    {i \in fis : /\ i.storage = call.storage
                 /\ \E r \in frs : r.id = i.file_resource
                                   /\ r.filename = call.filename}

\* C4: add_instance on a pair whose instance is deleted returns that instance,
\* same id, with is_deleted false, and creates no record
C4_RevivesDeletedInstance ==
    [][last'.op = "add_instance" =>
          \A i \in InstanceOfCall(file_instances, file_resources, last') :
              i.is_deleted =>
                  /\ last'.ret = "ok"
                  /\ last'.inst.id = i.id
                  /\ ~last'.inst.is_deleted
                  /\ file_instances' = UpdateInstance(file_instances, i.id, FALSE)
      ]_vars

\* add_instance has revived an instance
C4_Witness ==
    /\ last.op = "add_instance"
    /\ last.did[2] = "revived"
    /\ ~last.inst.is_deleted

\* what the spec has check_file do for an instance, given the storage
Expected(inst) ==
    IF ~Exists(inst.storage, inst.file_resource.filename)
    THEN "DataMissingError"
    ELSE IF GetSize(inst.storage, inst.file_resource.filename)
                # inst.file_resource.size
    THEN "DataCorruptionError"
    ELSE "ok"

\* C5: check_file fails with DataMissingError when the file is absent, with
\* DataCorruptionError when the file is there with another size than the
\* catalog has, and returns otherwise
C5_CheckFileTellsMissingFromCorrupt ==
    last.op = "sweep_check" => last.ret = Expected(last.inst)

SweepRunning == swpc \in {"loop", "check", "repair"}

\* C6: a sweep with dry_run leaves every file resource and file instance as
\* it was, whatever fix_corrupt and remove_missing are, and check_file never
\* changes the catalog
C6_DryRunLeavesCatalog ==
    [][/\ (SweepRunning /\ swargs.dry_run) => catalog' = catalog
       /\ swpc = "check" => catalog' = catalog
       /\ last'.op = "sweep_start" => catalog' = catalog]_vars

\* a dry run with both repairs asked for has gone past an instance whose
\* check failed
C6_Witness ==
    /\ last.op = "sweep_repair"
    /\ swargs.dry_run /\ swargs.fix_corrupt /\ swargs.remove_missing
    /\ CheckFile(last.inst) = "DataCorruptionError"
    /\ Exists(last.storage, last.filename)

\* the file of the instance is there with another size than the catalog has
Corrupt(inst) ==
    /\ Exists(inst.storage, inst.file_resource.filename)
    /\ \E r \in file_resources :
           /\ r.id = inst.file_resource.id
           /\ r.size # GetSize(inst.storage, r.filename)

\* C7: for a non-deleted instance whose file is there with another size than
\* the catalog has, a sweep with fix_corrupt and without dry_run sets the
\* resource's size and created to the live values, and check_file on the
\* instance fetched again succeeds
C7_FixCorruptResyncs ==
    [][(/\ swpc = "repair"
        /\ swargs.fix_corrupt /\ ~swargs.dry_run
        /\ ~swcur.is_deleted
        /\ Corrupt(swcur))
       => /\ swpc' = "loop"
          /\ \E r \in file_resources' :
                 /\ r.id = swcur.file_resource.id
                 /\ r.size = GetSize(swcur.storage, r.filename)
                 /\ r.created = GetCreatedTime(swcur.storage, r.filename)
          /\ CheckFile(FileInstanceDict(file_resources', file_instances',
                                        swcur.id)) = "ok"
          /\ file_instances' = file_instances]_vars

\* the sweep has resynced a resource whose size differed from the live one
C7_Witness ==
    /\ last.op = "sweep_repair"
    /\ last.did[1] = "fixed"
    /\ last.inst.file_resource.size # GetSize(last.storage, last.filename)
    /\ CheckFile(FileInstanceDict(file_resources, file_instances,
                                  last.inst.id)) = "ok"

\* C8: for a non-deleted instance whose file is absent, a sweep with
\* remove_missing and without dry_run sets the instance deleted
C8_RemoveMissingDeletes ==
    (/\ last.op = "sweep_repair"
     /\ swargs.remove_missing /\ ~swargs.dry_run
     /\ ~Exists(last.storage, last.filename))
    => \E i \in file_instances : i.id = last.inst.id /\ i.is_deleted

\* C9: in a sweep an instance is set deleted only with remove_missing and a
\* missing file, a resource's size or created changes only with fix_corrupt
\* and a corrupt file, nothing else in the catalog changes, and with both
\* flags false the catalog stays as it is
C9_NoRepairWithoutFlag ==
    [][SweepRunning =>
          /\ file_instances' # file_instances =>
                 /\ swargs.remove_missing
                 /\ ~Exists(swcur.storage, swcur.file_resource.filename)
                 /\ file_instances'
                        = UpdateInstance(file_instances, swcur.id, TRUE)
          /\ file_resources' # file_resources =>
                 /\ swargs.fix_corrupt
                 /\ Corrupt(swcur)
                 /\ file_resources'
                        = UpdateResource(file_resources,
                              swcur.file_resource.id,
                              GetCreatedTime(swcur.storage,
                                             swcur.file_resource.filename),
                              GetSize(swcur.storage,
                                      swcur.file_resource.filename))
          /\ (~swargs.fix_corrupt /\ ~swargs.remove_missing)
                 => catalog' = catalog]_vars

\* a sweep without dry_run and without fix_corrupt has gone past a corrupt
\* file and left the resource as it was
C9_Witness ==
    /\ last.op = "sweep_repair"
    /\ ~swargs.dry_run /\ ~swargs.fix_corrupt
    /\ Corrupt(last.inst)

\* C10: a failure on one instance does not end the sweep: when the sweep has
\* stopped, no selected resource after the one it was at is left unprocessed
C10_SweepReachesEveryResource ==
    swpc \in {"done", "aborted"} => Len(swqueue) <= 1

\* the catalog has a file resource of this name whose size or created is not
\* what the storage reports
Mismatch(s, f) ==
    /\ Exists(s, f)
    /\ \E r \in file_resources :
           /\ r.filename = f
           /\ (r.size # GetSize(s, f) \/ r.created # GetCreatedTime(s, f))

\* C11: add_file with update false that meets a mismatching file resource
\* raises FieldMismatchError and leaves every file resource and file instance
\* as it was
C11_MismatchWithoutUpdateRaises ==
    [][(last'.op = "add_file" /\ Mismatch(last'.storage, last'.filename))
       => /\ last'.ret = "FieldMismatchError"
          /\ catalog' = catalog]_vars

\* add_file has raised FieldMismatchError for a resource that has a live
\* instance on the storage
C11_Witness ==
    /\ last.op = "add_file"
    /\ last.ret = "FieldMismatchError"
    /\ Mismatch(last.storage, last.filename)
    /\ \E r \in file_resources :
           /\ r.filename = last.filename
           /\ NonDeleted(r.id, last.storage) # {}

\* the instances the sweep's get() would match for the resource it is at
AtHead ==
    {i \in file_instances : /\ i.file_resource = Head(swqueue)
                            /\ i.storage = swargs.storage_name}

\* C15: the sweep passes over an instance that is deleted when fetched,
\* without check_file and without a change of the catalog, and no step of
\* the sweep changes a deleted instance
C15_SweepSkipsDeleted ==
    [][/\ (/\ swpc = "loop" /\ swqueue # << >>
           /\ \E i \in AtHead : i.is_deleted)
          => /\ swpc' = "loop"
             /\ swqueue' = Tail(swqueue)
             /\ catalog' = catalog
       /\ SweepRunning
          => \A i \in file_instances : i.is_deleted => i \in file_instances'
      ]_vars

\* the sweep has passed over a deleted instance and goes on
C15_Witness ==
    /\ last.op = "sweep_fetch"
    /\ last.ret = "deleted"
    /\ last.inst.is_deleted
    /\ swpc = "loop"

\* every record once, in the store's order
YieldsAll == pg.out = [i \in 1..pg.n |-> i]

Ceil(a, b) == (a + b - 1) \div b

\* C18, as stated: list() over N records with page size P yields the N
\* records, each once and in the store's order, with ceil(N/P) page fetches
C18_CeilFetches ==
    pg.pc = "done" =>
        /\ YieldsAll
        /\ pg.fetches = Ceil(pg.n, PageLimit)

\* C18, amended: list() over N records with page size P yields the N records,
\* each once and in the store's order, with floor(N/P) + 1 page fetches: one
\* more than ceil(N/P) when N is 0 or a multiple of P
C18_FloorPlusOneFetches ==
    pg.pc = "done" =>
        /\ YieldsAll
        /\ pg.fetches = (pg.n \div PageLimit) + 1
        /\ pg.fetches = Ceil(pg.n, PageLimit)
               + (IF pg.n % PageLimit = 0 THEN 1 ELSE 0)

\* a list() over two full pages has ended, on a third and empty page
C18_Witness ==
    /\ pg.pc = "done"
    /\ pg.n = 2 * PageLimit
    /\ pg.fetches = 3
    /\ Len(pg.out) = pg.n

\* C19: the cursor starts at offset 0, moves on by the limit after every
\* page, the limit staying what it was, and list() ends, after a page shorter
\* than the limit, for every number of records
C19_CursorAdvancesAndEnds ==
    /\ [](pg.pc = "fetch" =>
              /\ pg.params.limit = PageLimit
              /\ pg.params.offset = pg.fetches * PageLimit)
    /\ [][pg.pc = "fetch" =>
              /\ pg'.params.limit = pg.params.limit
              /\ pg'.pc = "fetch"
                     => pg'.params.offset = pg.params.offset + pg.params.limit
              /\ pg'.pc = "done"
                     <=> Len(Page(pg.n, pg.params)) < pg.params.limit]_vars
    /\ (pg.pc = "fetch" ~> pg.pc = "done")

\* a list() that moved its cursor twice has ended
C19_Witness ==
    /\ pg.pc = "done"
    /\ pg.params.offset = 2 * PageLimit
    /\ pg.n > pg.params.offset

\* the instances of the resource add_file works on
AfInstances == {i \in file_instances : i.file_resource = af.res}

\* the resource add_file works on holds what the storage reports
AfResourceLive ==
    \E r \in file_resources :
        /\ r.id = af.res
        /\ r.size = GetSize(af.storage_name, af.filename)
        /\ r.created = GetCreatedTime(af.storage_name, af.filename)

\* C12: add_file with update=True that met a mismatch changes the resource
\* only once every instance of it, on every storage, is deleted, calls
\* add_instance only once the resource holds the live values, and when it
\* returns the instance on the target storage is the one instance of the
\* resource that is not deleted
C12_DeleteAllUpdateThenAdd ==
    /\ [][(AfRunning /\ af.mismatch /\ file_resources' # file_resources)
              => /\ \A i \in AfInstances : i.is_deleted
                 /\ file_instances' = file_instances
                 /\ af'.pc = "add_instance"]_vars
    /\ []((af.pc = "add_instance" /\ af.mismatch)
              => /\ AfResourceLive
                 /\ \A i \in AfInstances : i.is_deleted)
    /\ []((af.pc = "returned" /\ af.mismatch)
              => /\ AfResourceLive
                 /\ Cardinality({i \in AfInstances : ~i.is_deleted}) = 1
                 /\ \A i \in AfInstances :
                        ~i.is_deleted <=> i.storage = af.storage_name)

\* add_file(update=True) has returned after deleting a live instance that the
\* resource had on another storage
C12_Witness ==
    /\ af.pc = "returned"
    /\ af.mismatch
    /\ af.update
    /\ \E i \in AfInstances :
           /\ i.storage # af.storage_name
           /\ i.is_deleted
           /\ \E j \in af.start[2] : j.id = i.id /\ ~j.is_deleted

\* what add_file makes of the catalog it started on when nothing interrupts it
Uninterrupted ==
    LET u == AddFile(af.start[1], af.start[2], af.storage_name, af.filename,
                     af.update)
    IN <<u.frs, u.fis>>

\* add_file taken request by request ends where add_file taken whole ends
AddFileStepsAgree ==
    af.pc = "returned" => catalog = Uninterrupted

\* C13: add_file(update=True) interrupted in or after the loop that deletes
\* the instances and before the update of the resource leaves the instances it
\* went through deleted and the resource as stale as it was; the same call
\* made again and run to its end leaves the catalog that the call would have
\* left had it not been interrupted
C13_CrashThenRerun ==
    /\ (af.pc = "crashed" /\ af.at = "delete")
           => /\ \A i \in AfInstances :
                     (\A k \in 1..Len(af.todo) : af.todo[k] # i.id)
                         => i.is_deleted
              /\ file_resources = af.start[1]
              /\ ~AfResourceLive
    /\ (af.pc = "returned" /\ af.rerun) => catalog = Uninterrupted

\* the call made again after an interruption in the loop has returned
C13_Witness ==
    /\ af.pc = "returned"
    /\ af.rerun
    /\ af.mismatch
    /\ \E i \in AfInstances :
           /\ i.storage # af.storage_name
           /\ i.is_deleted
           /\ \E j \in af.start[2] : j.id = i.id /\ ~j.is_deleted

\* the interrupted call has left an instance deleted and the resource stale
C13_WitnessCrashed ==
    /\ af.pc = "crashed"
    /\ af.at = "delete"
    /\ \E i \in AfInstances :
           i.is_deleted /\ \E j \in af.start[2] : j.id = i.id /\ ~j.is_deleted

\* the path lies in the directory that the storage's prefix names
UnderPrefix(s, filepath) == StartsWith(filepath, Prefix(s) \o <<"/">>)

\* C14: add_file with a path that is not under the storage's prefix raises
\* the invalid-path error (ValueError) and leaves the catalog as it was
C14_OutsidePrefixRaises ==
    (af.pc # "idle" /\ ~UnderPrefix(af.storage_name, af.filepath))
        => /\ af.pc = "raised"
           /\ af.ret = "ValueError"
           /\ catalog = af.start

\* the file resources of the selected datasets with no file instance on the
\* storage of the run
DatasetMisses ==
    {rid \in UNION {swargs.datasets[k] : k \in DOMAIN swargs.datasets} :
         OnPair(file_instances, rid, swargs.storage_name) = {}}

\* C16: the sweep does not fail on a selected file resource that has no file
\* instance on the target storage: it passes it over, the catalog as it was,
\* and goes on
C16_MissIsPassedOver ==
    [][(swpc = "datasets" /\ DatasetMisses # {})
           => swpc' # "aborted" /\ catalog' = catalog]_vars

\* C17: in a sweep that repeats the sweep before it, with the command line of
\* that sweep and the storages as they were, no step changes the catalog
C17_RerunChangesNothing ==
    [][(swagain /\ SweepRunning) => catalog' = catalog]_vars

\* a second run with --fix_corrupt has checked its last file instance and ended
C17_Witness ==
    /\ swagain
    /\ swpc = "done"
    /\ swargs.fix_corrupt
    /\ ~swargs.dry_run
    /\ \E r \in file_resources : NonDeleted(r.id, swargs.storage_name) # {}

\* the file instances that the filters of the get made last match
GetMatches == {i \in file_instances : i.storage = last'.storage}

\* C20: get returns the record when one record matches the filters, raises
\* NotFoundError when none does and AmbiguousResult when several do, returning
\* none of them, and leaves the catalog as it was
C20_GetOneOrRaise ==
    [][last'.op = "get"
           => /\ catalog' = catalog
              /\ GetMatches = {} => last'.ret = "NotFoundError"
              /\ Cardinality(GetMatches) = 1
                     => /\ last'.ret = "ok"
                        /\ \E i \in GetMatches : last'.inst.id = i.id
              /\ Cardinality(GetMatches) > 1
                     => /\ last'.ret = "AmbiguousResult"
                        /\ last'.inst = NoInstance]_vars

\* get has raised AmbiguousResult on a storage with several file instances
C20_Witness ==
    /\ last.op = "get"
    /\ last.ret = "AmbiguousResult"
    /\ Cardinality({i \in file_instances : i.storage = last.storage}) > 1

\* the file resources under the filename of the add_file made in this step
UnderFilename == {r \in file_resources : r.filename = last'.filename}

\* the values get_or_create is given by the add_file made in this step
GivenValues(r) ==
    /\ r.size = GetSize(last'.storage, last'.filename)
    /\ r.created = GetCreatedTime(last'.storage, last'.filename)

\* C21: get_or_create, as add_file calls it for the file resource, returns
\* the record that exists under the filename with the given size and created,
\* creates one record when none exists under the filename, and raises
\* FieldMismatchError, the record left as it is, when one exists with another
\* size or created
C21_GetOrCreate ==
    [][(last'.op = "add_file" /\ Exists(last'.storage, last'.filename))
           => /\ UnderFilename = {}
                     => /\ last'.ret = "ok"
                        /\ \E r \in file_resources' :
                               /\ r \notin file_resources
                               /\ r.filename = last'.filename
                               /\ GivenValues(r)
                               /\ last'.res.id = r.id
                               /\ file_resources' = file_resources \cup {r}
              /\ \A r \in UnderFilename :
                     /\ GivenValues(r)
                            => /\ last'.ret = "ok"
                               /\ last'.res.id = r.id
                               /\ file_resources' = file_resources
                     /\ ~GivenValues(r)
                            => /\ last'.ret = "FieldMismatchError"
                               /\ file_resources' = file_resources]_vars

\* add_file has got from get_or_create the file resource that was there
C21_Witness ==
    /\ last.op = "add_file"
    /\ last.ret = "ok"
    /\ last.did[1] = "matched"
    /\ \E r \in file_resources : r.id = last.res.id /\ r.filename = last.filename

\* C22: once get_storage has resolved a name, no call asks the catalog for
\* that name again and the cached record stays the one first fetched; every
\* call that returns gives the cached record, whatever the catalog holds now
C22_GetStorageMemoized ==
    /\ [][\A n \in Storages :
              st.cached_storages[n] # NoStorage
                  => /\ st'.cached_storages[n] = st.cached_storages[n]
                     /\ st'.queries[n] = st.queries[n]]_vars
    /\ []((st.call.op = "get_storage" /\ st.call.ret = "ok")
              => st.call.value = st.cached_storages[st.call.name])

\* get_storage has answered from its cache with a record that the catalog
\* has replaced since
C22_Witness ==
    /\ st.call.op = "get_storage"
    /\ st.call.ret = "ok"
    /\ st.call.hit
    /\ st.call.value # st.catalog[st.call.name]

\* C23: get_storage_client constructs a BlobStorageClient for a storage of
\* type blob and a ServerStorageClient for one of type server, and once it has
\* a client for a name every call for that name returns that client and none
\* is constructed
C23_GetStorageClientMemoized ==
    /\ [][\A n \in Storages :
              st.cached_storage_clients[n] # NoClient
                  => /\ st'.cached_storage_clients[n]
                            = st.cached_storage_clients[n]
                     /\ (st' # st /\ st'.call.op = "get_storage_client"
                            /\ st'.call.name = n)
                            => /\ st'.call.ret = "ok"
                               /\ st'.call.value = st.cached_storage_clients[n]
                               /\ st'.objects = st.objects]_vars
    /\ []((st.call.op = "get_storage_client" /\ st.call.ret = "ok")
              => LET type == st.cached_storages[st.call.name].storage_type
                 IN /\ type = "blob" => st.call.value.class = "BlobStorageClient"
                    /\ type = "server"
                           => st.call.value.class = "ServerStorageClient"
                    /\ type \in {"blob", "server"}
                           => st.call.value
                                  = st.cached_storage_clients[st.call.name])

\* get_storage_client has returned from its cache the object-store client it
\* constructed before, while the other name has a filesystem client
C23_Witness ==
    /\ st.call.op = "get_storage_client"
    /\ st.call.hit
    /\ st.call.value.class = "BlobStorageClient"
    /\ \E n \in Storages :
           st.cached_storage_clients[n].class = "ServerStorageClient"

\* C24: in both variants create compares sizes when the destination exists,
\* raising when they differ and changing nothing otherwise, and copies or
\* uploads the local file when the destination is absent
C24_CreateIdempotent ==
    [][last'.op = "create"
           => LET s == last'.storage
                  f == last'.filename
              IN IF Exists(s, f)
                 THEN /\ disk' = disk
                      /\ last'.ret = IF GetSize(s, f) # last'.local.size
                                     THEN "Exception" ELSE "ok"
                 ELSE /\ last'.ret = "ok"
                      /\ disk' = [disk EXCEPT ![s][f] =
                                      [size |-> last'.local.size,
                                       created |-> clock']]]_vars

\* the file resource get_file_instance was last called with, as the catalog
\* holds it
C25_Resource == FileResourceDict(file_resources, file_instances, last.res.id)

\* C25: get_file_instance returns the instance of the resource on
\* storage_name with the resource attached, raises NotFoundError exactly when
\* the resource has no instance on that storage, and leaves the entries of the
\* resource's instance list as they were
C25_GetFileInstance ==
    last.op = "get_file_instance"
        => LET on == {i \in C25_Resource.file_instances :
                          i.storage = last.storage}
           IN /\ last.res = C25_Resource
              /\ last.ret = "NotFoundError" <=> on = {}
              /\ on # {}
                     => /\ last.ret = "ok"
                        /\ [id |-> last.inst.id, storage |-> last.inst.storage,
                            is_deleted |-> last.inst.is_deleted] \in on
                        /\ last.inst.file_resource
                               = [id |-> C25_Resource.id,
                                  filename |-> C25_Resource.filename,
                                  size |-> C25_Resource.size,
                                  created |-> C25_Resource.created]

\* get_file_instance has returned the instance on one storage of a resource
\* that has an instance on the other storage too
C25_Witness ==
    /\ last.op = "get_file_instance"
    /\ last.ret = "ok"
    /\ \E i \in last.res.file_instances : i.storage # last.storage

\* get_file_instance has raised NotFoundError for a resource whose only
\* instances are on another storage
C25_WitnessNotFound ==
    /\ last.op = "get_file_instance"
    /\ last.ret = "NotFoundError"
    /\ last.res.file_instances # {}

\* C26: update_file sets size and created of the instance's file resource to
\* what the instance's storage reports for the file, and returns the instance
\* carrying the resource as updated
C26_UpdateFile ==
    (last.op = "update_file" /\ last.ret = "ok")
        => \E r \in file_resources :
               /\ r.id = last.inst.file_resource.id
               /\ r.filename = last.filename
               /\ r.size = GetSize(last.storage, last.filename)
               /\ r.created = GetCreatedTime(last.storage, last.filename)
               /\ last.inst.file_resource
                      = [id |-> r.id, filename |-> r.filename,
                         size |-> r.size, created |-> r.created]
               /\ \E i \in file_instances :
                      /\ i.id = last.inst.id
                      /\ i.file_resource = r.id
                      /\ i.storage = last.storage

\* update_file has set a resource to the values of the instance's storage
\* while the resource's file on the other storage has another size
C26_Witness ==
    /\ last.op = "update_file"
    /\ last.ret = "ok"
    /\ \E t \in Storages \ {last.storage} :
           /\ Exists(t, last.filename)
           /\ GetSize(t, last.filename) # last.inst.file_resource.size
           /\ \E i \in file_instances :
                  i.file_resource = last.inst.file_resource.id /\ i.storage = t

\* the options of a run that do not name exactly one selection: a dataset id
\* with a tag name, neither --all_file_instances nor a dataset type, or
\* --all_file_instances together with an option of the dataset selection
C27_NotOneSelection(cli) ==
    \/ cli.dataset_id # None /\ cli.tag_name # None
    \/ ~cli.all_file_instances /\ cli.dataset_type = None
    \/ /\ cli.all_file_instances
       /\ \/ cli.dataset_type # None
          \/ cli.dataset_id # None
          \/ cli.tag_name # None

\* C27: a run whose options do not name exactly one selection gets no
\* further than the rejection: it asks for no file resources, checks no file
\* and changes no catalog record
C27_OneSelectionPolicy ==
    (swpc # "idle" /\ C27_NotOneSelection(swargs.cli))
        => swpc \in {"select", "aborted"}

\* C28: a sweep selected by dataset goes through every file resource of
\* every selected dataset, of either dataset model: when it comes to a
\* dataset, all of the dataset's file resources are what it examines next
C28_EveryResourceOfEveryDataset ==
    [][(swpc = "datasets" /\ swargs.datasets # << >>)
           => /\ swargs.dataset_type \in DatasetModels
              /\ swpc' = "loop"
              /\ swqueue' = SortedIds(Head(swargs.datasets))
              /\ swargs'.datasets = Tail(swargs.datasets)]_vars

\* both sweeps of the pair have come to their end
C29_BothEnded ==
    /\ swpc \in {"done", "aborted"}
    /\ sw2.pc \in {"done", "aborted"}

\* C29: two sweeps run at once on the same storage with the same flags,
\* the storage not changing, leave in every interleaving the catalog that a
\* single sweep leaves of the catalog they were started on
C29_ConcurrentSweeps ==
    C29_BothEnded
        => <<file_resources, file_instances>>
               = SingleSweep(swargs, sw2.start[1], sw2.start[2])

\* both sweeps have ended, the second having repaired a record that the first
\* had repaired after the second read it
C29_Witness ==
    /\ C29_BothEnded
    /\ sw2.raced
    /\ <<file_resources, file_instances>> # sw2.start

\* the first process goes the way of SweepStep
C29_StepsAgree ==
    [][(swpc \in {"loop", "check", "repair"} /\ sweepvars' # sweepvars)
           => LET r == SweepStep([pc |-> swpc, queue |-> swqueue,
                                  cur |-> swcur, flags |-> swflags],
                                 swargs, file_resources, file_instances)
              IN /\ swpc' = r.p.pc
                 /\ swqueue' = r.p.queue
                 /\ swcur' = r.p.cur
                 /\ swflags' = r.p.flags
                 /\ file_resources' = r.frs
                 /\ file_instances' = r.fis]_vars

\* C30: in a run with fix_corrupt, without remove_missing and without
\* dry_run, an instance whose file is absent from the storage is not taken
\* for corrupt, update_file is not called for it, nothing of the catalog
\* changes and the sweep goes on to the next file resource
C30_AbsentIsNotCorrupt ==
    [][(/\ swpc = "repair"
        /\ ~Exists(swcur.storage, swcur.file_resource.filename)
        /\ swargs.fix_corrupt /\ ~swargs.remove_missing /\ ~swargs.dry_run)
           => /\ ~swflags.file_corrupt
              /\ ~DoFix(swflags, swargs)
              /\ catalog' = catalog
              /\ swpc' = "loop"
              /\ swqueue' = Tail(swqueue)]_vars

\* C32: update_file, called directly or by the fix_corrupt repair of a
\* sweep, changes nothing but size and created of the instance's file
\* resource: every instance keeps its is_deleted, those of the same resource
\* on other storages too, and every other file resource stays as it is
C32_UpdateFileFrame ==
    [][(\/ last'.op = "update_file"
        \/ last'.op = "sweep_repair" /\ last'.did[1] = "fixed")
           => /\ file_instances' = file_instances
              /\ \A r \in file_resources :
                     IF r.id = last'.inst.file_resource.id
                     THEN \E x \in file_resources' :
                              x.id = r.id /\ x.filename = r.filename
                     ELSE r \in file_resources'
              /\ Cardinality(file_resources') = Cardinality(file_resources)]_vars

\* a fix_corrupt repair driven by one storage has resynced a resource that
\* has a non-deleted instance on the other storage, where the file has
\* another size
C32_Witness ==
    /\ last.op = "sweep_repair"
    /\ last.did[1] = "fixed"
    /\ \E i \in file_instances :
           /\ i.file_resource = last.inst.file_resource.id
           /\ i.storage # last.storage
           /\ ~i.is_deleted
           /\ Exists(i.storage, last.filename)
           /\ \E r \in file_resources :
                  /\ r.id = i.file_resource
                  /\ r.size # GetSize(i.storage, last.filename)

\* C33: add_file for a file that is not on the storage fails while it reads
\* size and created from the storage and leaves the catalog as it is: no file
\* resource created or updated, no instance created, deleted or revived
C33_AddFileOfAbsentFile ==
    [][(/\ last'.op \in {"add_file", "add_file_update"}
        /\ ~Exists(last'.storage, last'.filename))
           => /\ last'.ret = "StorageError"
              /\ catalog' = catalog]_vars

\* add_file with update has failed on a file that is gone from the storage
\* while the catalog holds its resource with a deleted instance on that storage
C33_Witness ==
    /\ last.op = "add_file_update"
    /\ last.ret = "StorageError"
    /\ ~Exists(last.storage, last.filename)
    /\ \E r \in file_resources :
           /\ r.filename = last.filename
           /\ \E i \in file_instances :
                  /\ i.file_resource = r.id
                  /\ i.storage = last.storage
                  /\ i.is_deleted

\* the selection has yielded each of these resources once and no other
YieldedOnce(out, ids) ==
    /\ Len(out) = Len(ids)
    /\ {out[i] : i \in 1..Len(out)} = {ids[i] : i \in 1..Len(ids)}

\* C34: when an all_file_instances sweep has ended, it has visited every
\* file resource that had an instance on the storage when it started, each
\* once, whatever it has resynced on its way
C34_SelectionVisitedOnce ==
    pg.pc \in {"done", "aborted"} => YieldedOnce(pg.out, pg.start)

\* a sweep that has not ended on an error has visited every resource of its
\* selection once, also when it has resynced resources of an earlier page
C34_CompletedSweepVisitedOnce ==
    pg.pc = "done" => pg.out = pg.start

\* a sweep with fix_corrupt has gone through a selection of more than one
\* page to the end
C34_WitnessPages ==
    /\ pg.pc = "done"
    /\ pg.fix_corrupt
    /\ pg.fetches > 1
    /\ Len(pg.out) > PageLimit

\* C35: a path that get_file_resource_filename accepts lies under the
\* storage's prefix directory, the filename returned for it is relative, and
\* get_filepath gives the path back from that filename; a path that only
\* continues the prefix as a string is not accepted
C35_PathRoundTrip ==
    last.op = "get_file_resource_filename"
        => /\ last.ret = "ok"
                  => /\ UnderPrefix(last.storage, last.filepath)
                     /\ last.filename = << >> \/ Head(last.filename) # "/"
                     /\ last.back.ret = "ok"
                     /\ last.back.filepath = last.filepath
           /\ ~UnderPrefix(last.storage, last.filepath)
                  => last.ret = "ValueError"

\* C36: for a storage whose storage_type is neither blob nor server,
\* get_storage_client raises instead of returning a value, and caches no
\* client for the name
C36_UnsupportedTypeRaises ==
    (/\ st.call.op = "get_storage_client"
     /\ st.cached_storages[st.call.name] # NoStorage
     /\ st.cached_storages[st.call.name].storage_type \notin {"blob", "server"})
        => /\ st.call.ret = "ValueError"
           /\ st.call.value = NoClient
           /\ st.cached_storage_clients[st.call.name] = NoClient

\* C37: is_sequence_dataset_on_storage returns true exactly when every file
\* resource of the dataset has an instance on the storage that is not marked
\* as deleted
C37_OnStorageIffAllLive ==
    last.op = "is_sequence_dataset_on_storage"
        => (last.ret
               <=> \A rid \in last.dataset :
                       \E i \in file_instances :
                           /\ i.file_resource = rid
                           /\ i.storage = last.storage
                           /\ ~i.is_deleted)
====
